---- MODULE Spec2Model ----
(***************************************************************************)
(* The x86_64 back end of the scratch compiler: the expression generator   *)
(* of codegen/x86_64/expr.rs together with a small machine that runs the   *)
(* instructions it emits.                                                  *)
(***************************************************************************)
EXTENDS Integers, Sequences, FiniteSets, TLC

\* Longest operand list of an n-ary operator in the inputs.
MaxArgs == 3

(***************************************************************************)
(* Machine words.  A word is a record [t, a, b]:                           *)
(*   int   a = the integer                                                 *)
(*   f64   the bit pattern of the finite double a/b (b > 0, lowest terms)  *)
(*   nzero / pinf / ninf / nan / fopq   bit patterns of -0.0, the           *)
(*         infinities, a NaN, and a double the model does not compute      *)
(*   sptr  address b bytes into the static string with label a             *)
(*   hptr  address b bytes into heap allocation a                          *)
(*   mask  a = 1: the constant 1 << 63, a = 2: the constant (1 << 63) - 1  *)
(*   sym   address of the list or variable storage with identifier a       *)
(*   junk  a value the program never wrote (uninitialised or clobbered)    *)
(***************************************************************************)
W(t, a, b) == [t |-> t, a |-> a, b |-> b]
IntW(n) == W("int", n, 0)
Junk == W("junk", 0, 0)
NegZero == W("nzero", 0, 0)
PInf == W("pinf", 0, 0)
NInf == W("ninf", 0, 0)
NaN == W("nan", 0, 0)
FOpaque == W("fopq", 0, 0)
SignBit == W("mask", 1, 0)
AbsMask == W("mask", 2, 0)
SPtr(id, off) == W("sptr", id, off)
HPtr(id, off) == W("hptr", id, off)
SymAddr(id) == W("sym", id, 0)

Abs(n) == IF n < 0 THEN -n ELSE n

RECURSIVE Gcd(_, _)
Gcd(x, y) == IF y = 0 THEN x ELSE Gcd(y, x % y)

\* The double num/den (den # 0), reduced; only 0/1 stands for +0.0.
F(num, den) ==
    LET s == IF den < 0 THEN -1 ELSE 1
        g == Gcd(Abs(num), Abs(den))
    IN  IF num = 0 THEN W("f64", 0, 1) ELSE W("f64", (s * num) \div g, (s * den) \div g)

IsFinite(w) == w.t \in {"f64", "nzero"}
Num_(w) == IF w.t = "f64" THEN w.a ELSE 0
Den_(w) == IF w.t = "f64" THEN w.b ELSE 1
IsZero(w) == w.t = "nzero" \/ (w.t = "f64" /\ w.a = 0)
IsNegative(w) == w.t \in {"nzero", "ninf"} \/ (w.t = "f64" /\ w.a < 0)

\* f64::to_bits of a literal, and the sign-bit flip `xor [rsp], rax` does.
FlipSign(w) ==
    CASE w.t = "f64" /\ w.a = 0 -> NegZero
      [] w.t = "f64" -> W("f64", -w.a, w.b)
      [] w.t = "nzero" -> F(0, 1)
      [] w.t = "pinf" -> NInf
      [] w.t = "ninf" -> PInf
      [] OTHER -> w

ClearSign(w) == IF IsNegative(w) THEN FlipSign(w) ELSE w

\* IEEE-754 addsd, subsd, mulsd, divsd on the modelled doubles.
AddF(x, y) ==
    CASE x.t \in {"nan", "fopq", "junk"} \/ y.t \in {"nan", "fopq", "junk"} ->
             IF x.t = "nan" \/ y.t = "nan" THEN NaN ELSE FOpaque
      [] ~IsFinite(x) /\ ~IsFinite(y) -> IF x.t = y.t THEN x ELSE NaN
      [] ~IsFinite(x) -> x
      [] ~IsFinite(y) -> y
      [] IsZero(x) /\ IsZero(y) -> IF x.t = "nzero" /\ y.t = "nzero" THEN NegZero ELSE F(0, 1)
      [] OTHER -> F(Num_(x) * Den_(y) + Num_(y) * Den_(x), Den_(x) * Den_(y))

SubF(x, y) == AddF(x, FlipSign(y))

MulF(x, y) ==
    LET neg == IsNegative(x) # IsNegative(y)
    IN  CASE x.t \in {"nan", "fopq", "junk"} \/ y.t \in {"nan", "fopq", "junk"} ->
                 IF x.t = "nan" \/ y.t = "nan" THEN NaN ELSE FOpaque
          [] (~IsFinite(x) /\ IsZero(y)) \/ (IsZero(x) /\ ~IsFinite(y)) -> NaN
          [] ~IsFinite(x) \/ ~IsFinite(y) -> IF neg THEN NInf ELSE PInf
          [] IsZero(x) \/ IsZero(y) -> IF neg THEN NegZero ELSE F(0, 1)
          [] OTHER -> F(Num_(x) * Num_(y), Den_(x) * Den_(y))

DivF(x, y) ==
    LET neg == IsNegative(x) # IsNegative(y)
    IN  CASE x.t \in {"nan", "fopq", "junk"} \/ y.t \in {"nan", "fopq", "junk"} ->
                 IF x.t = "nan" \/ y.t = "nan" THEN NaN ELSE FOpaque
          [] (~IsFinite(x) /\ ~IsFinite(y)) \/ (IsZero(x) /\ IsZero(y)) -> NaN
          [] ~IsFinite(x) -> IF neg THEN NInf ELSE PInf
          [] ~IsFinite(y) -> IF neg THEN NegZero ELSE F(0, 1)
          [] IsZero(y) -> IF neg THEN NInf ELSE PInf
          [] IsZero(x) -> IF neg THEN NegZero ELSE F(0, 1)
          [] OTHER -> F(Num_(x) * Den_(y), Den_(x) * Num_(y))

(***************************************************************************)
(* The IR: sb3_stuff::Value and ir::expr::Expr.  Strings are sequences of  *)
(* bytes.  Every value and every expression is a record of one shape.      *)
(***************************************************************************)
Num(n) == [vt |-> "Num", n |-> n, s |-> <<>>, bo |-> FALSE]
Str(s) == [vt |-> "String", n |-> 0, s |-> s, bo |-> FALSE]
Bool(b) == [vt |-> "Bool", n |-> 0, s |-> <<>>, bo |-> b]
NoVal == [vt |-> "None", n |-> 0, s |-> <<>>, bo |-> FALSE]

Lit(v) == [k |-> "Lit", v |-> v, name |-> "", a |-> <<>>, b |-> <<>>]
Sym(name) == [k |-> "Sym", v |-> NoVal, name |-> name, a |-> <<>>, b |-> <<>>]
FuncCall(name, args) == [k |-> "FuncCall", v |-> NoVal, name |-> name, a |-> args, b |-> <<>>]
AddSub(pos, neg) == [k |-> "AddSub", v |-> NoVal, name |-> "", a |-> pos, b |-> neg]
MulDiv(nums, dens) == [k |-> "MulDiv", v |-> NoVal, name |-> "", a |-> nums, b |-> dens]

(***************************************************************************)
(* Emitted text: a sequence of instructions [op, a, b, db].  An operand is *)
(* a register, [rsp+k], [rbp+k], [id+k] of a variable or list, an          *)
(* immediate word, a numbered label or a routine's name.  Offsets are the  *)
(* byte offsets of the source.                                             *)
(***************************************************************************)
Opd(m, r, k, w) == [m |-> m, r |-> r, k |-> k, w |-> w]
NoOpd == Opd("none", "", 0, Junk)
Reg(r) == Opd("reg", r, 0, Junk)
Stk(k) == Opd("rsp", "rsp", k, Junk)
Frame(k) == Opd("rbp", "rbp", k, Junk)
Slot(id, k) == Opd("var", "", k, SymAddr(id))
Imm(w) == Opd("imm", "", 0, w)
Lbl(u) == Opd("lbl", "", u, Junk)
Fn(name) == Opd("fn", name, 0, Junk)

Ins(op, a, b) == [op |-> op, a |-> a, b |-> b, db |-> <<>>]
Call(name) == Ins("call", Fn(name), NoOpd)
CallPlt(name) == Ins("call", Fn(name), Opd("plt", "wrt ..plt", 0, Junk))
SubRsp(n) == Ins("sub", Reg("rsp"), Imm(IntW(n)))
AddRsp(n) == Ins("add", Reg("rsp"), Imm(IntW(n)))

(***************************************************************************)
(* AsmProgram while one expression is generated: the text emitted so far,  *)
(* the stack_aligned flag, the uid generator, and the Result of the call   *)
(* that returned last (st = "ok" with typ, "err" with err, or "panic" for  *)
(* a todo!()).                                                             *)
(***************************************************************************)
NoErr == [kind |-> "", name |-> "", expected |-> 0, got |-> 0]
NewProgram(aligned) ==
    [text |-> <<>>, stack_aligned |-> aligned, uid |-> 0, entry_points |-> <<>>,
     st |-> "ok", typ |-> "", err |-> NoErr, marks |-> {}]

\* marks remembers, for the place in the text where each emission starts, the value
\* stack_aligned had when it was made.
emit(g, code) ==
    [g EXCEPT !.text = @ \o code,
              !.marks = @ \cup {[at |-> Len(g.text) + 1, flag |-> g.stack_aligned]}]
Ok(g, typ) == [g EXCEPT !.typ = typ]
Err(g, e) == [g EXCEPT !.st = "err", !.err = e]
Todo(g) == [g EXCEPT !.st = "panic"]
new_uid(g) == [g EXCEPT !.uid = @ + 1]
(***************************************************************************)
(* The names the generator resolves: the parameters of the procedure being *)
(* compiled, and the variables and lists of the sprite.                    *)
(***************************************************************************)
ProcParams == <<"p", "q">>
VarNames == {"x"}
ListNames == {"lst"}
var_id(sym) == IF sym = "x" THEN 1 ELSE 2
list_id(sym) == 3
str_empty == -1
str_true == -2
str_false == -3

lookup_var(sym) == sym \in VarNames
lookup_list(sym) == sym \in ListNames

RECURSIVE position(_, _, _)
position(params, sym, i) ==
    IF i > Len(params) THEN -1
    ELSE IF params[i] = sym THEN i - 1
    ELSE position(params, sym, i + 1)

\* if !self.stack_aligned { sub rsp, 8 }; call name; if !self.stack_aligned { add rsp, 8 }
aligning_call(g, name) ==
    IF g.stack_aligned THEN emit(g, <<Call(name)>>)
    ELSE emit(g, <<SubRsp(8), Call(name), AddRsp(8)>>)

\* The staticstr directive allocate_static_str writes for a fresh uid.
allocate_static_str(g, s) ==
    [new_uid(g) EXCEPT !.text = @ \o <<[op |-> "staticstr", a |-> Lbl(g.uid), b |-> NoOpd, db |-> s]>>]

LitNumCode(bits) == <<Ins("mov", Reg("rax"), Imm(bits)), Ins("movq", Reg("xmm0"), Reg("rax"))>>
LitStrCode(string_id, len) ==
    <<Ins("lea", Reg("rax"), Imm(SPtr(string_id, 0))), Ins("mov", Reg("rdx"), Imm(IntW(len)))>>
LitFalseCode == <<Ins("xor", Reg("eax"), Reg("eax"))>>
LitTrueCode == <<Ins("mov", Reg("eax"), Imm(IntW(1)))>>

\* f64::to_bits
to_bits(n) == F(n, 1)

generate_lit(g, lit) ==
    CASE lit.vt = "Num" -> Ok(emit(g, LitNumCode(to_bits(lit.n))), "Double")
      [] lit.vt = "String" ->
            LET g1 == allocate_static_str(g, lit.s)
            IN  Ok(emit(g1, LitStrCode(g.uid, Len(lit.s))), "StaticStr")
      [] lit.vt = "Bool" /\ ~lit.bo -> Ok(emit(g, LitFalseCode), "Bool")
      [] OTHER -> Ok(emit(g, LitTrueCode), "Bool")

SymParamCode(n, param_index) ==
    <<Ins("mov", Reg("rdi"), Frame((n - param_index) * 16)),
      Ins("mov", Reg("rsi"), Frame((n - param_index) * 16 + 8))>>
SymVarCode_Take(id) ==
    <<Ins("mov", Reg("rdi"), Slot(id, 0)), Ins("mov", Reg("rsi"), Slot(id, 8)),
      Ins("mov", Slot(id, 8), Imm(IntW(0)))>>
SymVarCode(id) ==
    <<Ins("mov", Reg("rdi"), Slot(id, 0)), Ins("mov", Reg("rsi"), Slot(id, 8))>>

generate_symbol(g, sym) ==
    LET param_index == position(ProcParams, sym, 1)
    IN  IF param_index >= 0
        THEN Ok(aligning_call(emit(g, SymParamCode(Len(ProcParams), param_index)), "clone_any"), "Any")
        ELSE IF lookup_var(sym)
        THEN Ok(aligning_call(emit(g, SymVarCode(var_id(sym))), "clone_any"), "Any")
        ELSE Err(g, [kind |-> "UnknownVarOrList", name |-> sym, expected |-> 0, got |-> 0])

MovAnyToArgs == <<Ins("mov", Reg("rdi"), Reg("rax")), Ins("mov", Reg("rsi"), Reg("rdx"))>>
PackDouble == <<Ins("movq", Reg("rdx"), Reg("xmm0")), Ins("mov", Reg("rax"), Imm(IntW(2)))>>

\* The coercion each wrapper emits for the Typ generate_expr returned.
bool_coercion_NoStaticStr(g) ==
    CASE g.typ = "Double" -> aligning_call(g, "double_to_bool")
      [] g.typ = "Bool" -> g
      [] g.typ = "StaticStr" -> Todo(g)
      [] g.typ = "OwnedString" -> aligning_call(g, "owned_string_to_bool")
      [] OTHER -> aligning_call(g, "any_to_bool")
bool_coercion(g) ==
    CASE g.typ = "Double" -> aligning_call(g, "double_to_bool")
      [] g.typ = "Bool" -> g
      [] g.typ = "StaticStr" -> aligning_call(g, "static_str_to_bool")
      [] g.typ = "OwnedString" -> aligning_call(g, "owned_string_to_bool")
      [] OTHER -> aligning_call(g, "any_to_bool")

double_coercion(g) ==
    CASE g.typ = "Double" -> g
      [] g.typ = "Bool" -> aligning_call(g, "bool_to_double")
      [] g.typ = "StaticStr" -> aligning_call(g, "static_str_to_double")
      [] g.typ = "OwnedString" -> aligning_call(g, "owned_string_to_double")
      [] OTHER -> aligning_call(emit(g, MovAnyToArgs), "any_to_double")

cow_coercion(g) ==
    CASE g.typ = "Double" -> aligning_call(g, "double_to_cow")
      [] g.typ = "Bool" -> aligning_call(g, "bool_to_static_str")
      [] g.typ \in {"StaticStr", "OwnedString"} -> g
      [] OTHER -> aligning_call(emit(g, MovAnyToArgs), "any_to_cow")

any_coercion(g) ==
    CASE g.typ = "Double" -> emit(g, PackDouble)
      [] OTHER -> g

\* The code of generate_add_sub and generate_mul_div.
Xorpd0 == <<Ins("xorpd", Reg("xmm0"), Reg("xmm0"))>>
PushAcc == <<SubRsp(8), Ins("movsd", Stk(0), Reg("xmm0"))>>
AddTerm == <<Ins("addsd", Reg("xmm0"), Stk(0)), Ins("movsd", Stk(0), Reg("xmm0"))>>
SubTerm_Swapped == <<Ins("subsd", Reg("xmm0"), Stk(0)), Ins("movsd", Stk(0), Reg("xmm0"))>>
SubTerm ==
    <<Ins("movsd", Reg("xmm1"), Stk(0)), Ins("subsd", Reg("xmm1"), Reg("xmm0")),
      Ins("movsd", Stk(0), Reg("xmm1"))>>
PopAcc_NoAdd == <<Ins("movsd", Reg("xmm0"), Stk(0))>>
PopAcc == <<Ins("movsd", Reg("xmm0"), Stk(0)), AddRsp(8)>>
NegAcc_NoFlip == <<Ins("movsd", Reg("xmm0"), Stk(0)), AddRsp(8)>>
NegAcc ==
    <<Ins("mov", Reg("rax"), Imm(SignBit)), Ins("xor", Stk(0), Reg("rax")),
      Ins("movsd", Reg("xmm0"), Stk(0)), AddRsp(8)>>
MulTerm == <<Ins("mulsd", Reg("xmm0"), Stk(0)), Ins("movsd", Stk(0), Reg("xmm0"))>>
DivTerm ==
    <<Ins("movsd", Reg("xmm1"), Stk(0)), Ins("divsd", Reg("xmm1"), Reg("xmm0")),
      Ins("movsd", Stk(0), Reg("xmm1"))>>
RecipAcc ==
    <<Ins("mov", Reg("rax"), Imm(F(1, 1))), Ins("movq", Reg("xmm0"), Reg("rax")),
      Ins("divsd", Reg("xmm0"), Stk(0)), AddRsp(8)>>

flip_aligned(g) == [g EXCEPT !.stack_aligned = ~@]
\* The code of generate_func_call.
ListGetArgs(id) ==
    <<Ins("mov", Reg("rdi"), Reg("rax")), Ins("mov", Reg("rsi"), Reg("rdx")),
      Ins("lea", Reg("rdx"), Imm(SymAddr(id)))>>
ConcatEmpty ==
    <<Ins("lea", Reg("rax"), Imm(SPtr(str_empty, 0))), Ins("xor", Reg("edx"), Reg("edx"))>>
ConcatSave ==
    <<Ins("push", Reg("rdx"), NoOpd), SubRsp(8),
      Ins("push", Reg("rdx"), NoOpd), Ins("push", Reg("rax"), NoOpd)>>
ConcatStep_OneRelease ==
    <<Ins("add", Stk(24), Reg("rdx")),
      Ins("push", Reg("rdx"), NoOpd),
      Ins("push", Reg("rax"), NoOpd),
      Ins("mov", Reg("rdi"), Stk(40)),
      CallPlt("malloc"),
      Ins("mov", Stk(32), Reg("rax")),
      Ins("mov", Reg("rdi"), Reg("rax")),
      Ins("mov", Reg("rsi"), Stk(0)),
      Ins("mov", Reg("rdx"), Stk(8)),
      CallPlt("memcpy"),
      Ins("mov", Reg("rdi"), Reg("rax")),
      Ins("add", Reg("rdi"), Stk(8)),
      Ins("mov", Reg("rsi"), Stk(16)),
      Ins("mov", Reg("rdx"), Stk(24)),
      CallPlt("memcpy"),
      Call("drop_pop_cow"),
      AddRsp(16),
      Ins("pop", Reg("rax"), NoOpd),
      Ins("pop", Reg("rdx"), NoOpd)>>
ConcatStep ==
    <<Ins("add", Stk(24), Reg("rdx")),
      Ins("push", Reg("rdx"), NoOpd),
      Ins("push", Reg("rax"), NoOpd),
      Ins("mov", Reg("rdi"), Stk(40)),
      CallPlt("malloc"),
      Ins("mov", Stk(32), Reg("rax")),
      Ins("mov", Reg("rdi"), Reg("rax")),
      Ins("mov", Reg("rsi"), Stk(0)),
      Ins("mov", Reg("rdx"), Stk(8)),
      CallPlt("memcpy"),
      Ins("mov", Reg("rdi"), Reg("rax")),
      Ins("add", Reg("rdi"), Stk(8)),
      Ins("mov", Reg("rsi"), Stk(16)),
      Ins("mov", Reg("rdx"), Stk(24)),
      CallPlt("memcpy"),
      Call("drop_pop_cow"),
      Call("drop_pop_cow"),
      Ins("pop", Reg("rax"), NoOpd),
      Ins("pop", Reg("rdx"), NoOpd)>>
ShortCircuit(condition, label) ==
    <<Ins("test", Reg("rax"), Reg("rax")), Ins(condition, Lbl(label), NoOpd)>>
LocalLabel(label) == <<Ins("label", Lbl(label), NoOpd)>>
NotCode == <<Ins("xor", Reg("rax"), Imm(IntW(1)))>>
LengthCode(id) == <<Ins("mov", Reg("rdi"), Slot(id, 8)), Call("usize_to_double")>>
StrLengthReserve(stack_was_aligned) == IF stack_was_aligned THEN <<SubRsp(8)>> ELSE <<SubRsp(16)>>
StrLengthCode_NoRelease ==
    <<Ins("push", Reg("rdx"), NoOpd),
      Ins("push", Reg("rax"), NoOpd),
      Call("str_length"),
      Ins("mov", Reg("rdi"), Reg("rax")),
      Call("usize_to_double"),
      Ins("movsd", Stk(16), Reg("xmm0")),
      AddRsp(16),
      Ins("movsd", Reg("xmm0"), Stk(0))>>
StrLengthCode ==
    <<Ins("push", Reg("rdx"), NoOpd),
      Ins("push", Reg("rax"), NoOpd),
      Call("str_length"),
      Ins("mov", Reg("rdi"), Reg("rax")),
      Call("usize_to_double"),
      Ins("movsd", Stk(16), Reg("xmm0")),
      Call("drop_pop_cow"),
      Ins("movsd", Reg("xmm0"), Stk(0))>>
StrLengthRelease(stack_was_aligned) == IF stack_was_aligned THEN <<AddRsp(8)>> ELSE <<AddRsp(16)>>
CharAtSave == <<SubRsp(16), Ins("push", Reg("rdx"), NoOpd), Ins("push", Reg("rax"), NoOpd)>>
CharAtCode ==
    <<Call("double_to_usize"),
      Ins("mov", Reg("rdx"), Reg("rax")),
      Ins("mov", Reg("rdi"), Stk(0)),
      Ins("mov", Reg("rsi"), Stk(8)),
      Call("char_at"),
      Ins("mov", Stk(16), Reg("rax")),
      Ins("mov", Stk(24), Reg("rdx")),
      Call("drop_pop_cow"),
      Ins("pop", Reg("rax"), NoOpd),
      Ins("pop", Reg("rdx"), NoOpd)>>
ModReserve(stack_was_aligned) == IF stack_was_aligned THEN <<SubRsp(8)>> ELSE <<SubRsp(16)>>
ModSave == <<Ins("movsd", Stk(0), Reg("xmm0"))>>
ModCode == <<Ins("movsd", Reg("xmm1"), Stk(0)), Call("fmod")>>
ModRelease(stack_was_aligned) == IF stack_was_aligned THEN <<AddRsp(8)>> ELSE <<AddRsp(16)>>
AbsCode ==
    <<Ins("mov", Reg("rax"), Imm(AbsMask)), Ins("movq", Reg("xmm1"), Reg("rax")),
      Ins("andpd", Reg("xmm0"), Reg("xmm1"))>>
FloorCode == <<Ins("roundsd", Reg("xmm0"), Imm(IntW(1)))>>
CeilCode == <<Ins("roundsd", Reg("xmm0"), Imm(IntW(2)))>>
SqrtCode == <<Ins("sqrtsd", Reg("xmm0"), Reg("xmm0"))>>

\* The code of generate_comparison.
CmpSave == <<SubRsp(8), Ins("movsd", Stk(0), Reg("xmm0"))>>
CmpDouble(condition) ==
    <<Ins("movsd", Reg("xmm1"), Stk(0)), Ins("xor", Reg("eax"), Reg("eax")),
      Ins("ucomisd", Reg("xmm1"), Reg("xmm0")), Ins(condition, Reg("al"), NoOpd)>>
CmpBoolEq == <<Ins("xor", Reg("eax"), Reg("eax"))>>
CmpRelease == <<AddRsp(8)>>

wrong_arg_count(g, func_name, expected, args) ==
    Err(g, [kind |-> "FunctionWrongArgCount", name |-> func_name,
            expected |-> expected, got |-> Len(args)])

Reverse(s) == [i \in 1..Len(s) |-> s[Len(s) + 1 - i]]
Front(s) == SubSeq(s, 1, Len(s) - 1)
Last(s) == s[Len(s)]

\* Ordering::is_gt: the operands as generate_comparison takes them.
comparison_operands_noswap(ordering, lhs, rhs) ==
    [ordering |-> IF ordering = "Greater" THEN "Less" ELSE ordering, lhs |-> lhs, rhs |-> rhs]
comparison_operands(ordering, lhs, rhs) ==
    IF ordering = "Greater"
    THEN [ordering |-> "Less", lhs |-> rhs, rhs |-> lhs]
    ELSE [ordering |-> ordering, lhs |-> lhs, rhs |-> rhs]

libc_name(func_name) ==
    CASE func_name = "ln" -> "log"
      [] func_name = "log" -> "log10"
      [] func_name = "e^" -> "exp"
      [] func_name = "ten^" -> "exp10"
      [] OTHER -> func_name

RECURSIVE generate_expr(_, _), generate_func_call(_, _, _), generate_add_sub(_, _, _),
          generate_mul_div(_, _, _), generate_comparison(_, _, _, _),
          generate_bool_expr(_, _), generate_double_expr(_, _), generate_cow_expr(_, _),
          generate_any_expr(_, _), double_terms(_, _, _), concat_fold(_, _),
          short_circuit_args(_, _, _, _)

generate_expr(g, expr) ==
    CASE expr.k = "Lit" -> generate_lit(g, expr.v)
      [] expr.k = "Sym" -> generate_symbol(g, expr.name)
      [] expr.k = "FuncCall" -> generate_func_call(g, expr.name, expr.a)
      [] expr.k = "AddSub" -> generate_add_sub(g, expr.a, expr.b)
      [] OTHER -> generate_mul_div(g, expr.a, expr.b)

generate_bool_expr(g, expr) ==
    LET g1 == generate_expr(g, expr) IN IF g1.st # "ok" THEN g1 ELSE bool_coercion(g1)

generate_double_expr(g, expr) ==
    LET g1 == generate_expr(g, expr) IN IF g1.st # "ok" THEN g1 ELSE double_coercion(g1)

generate_cow_expr(g, expr) ==
    LET g1 == generate_expr(g, expr) IN IF g1.st # "ok" THEN g1 ELSE cow_coercion(g1)

generate_any_expr(g, expr) ==
    LET g1 == generate_expr(g, expr) IN IF g1.st # "ok" THEN g1 ELSE any_coercion(g1)

\* for term in terms { self.generate_double_expr(term)?; self.emit(code); }
double_terms(g, terms, code) ==
    IF terms = <<>> THEN g
    ELSE LET g1 == generate_double_expr(g, Head(terms))
         IN  IF g1.st # "ok" THEN g1 ELSE double_terms(emit(g1, code), Tail(terms), code)
generate_add_sub(g, positives, negatives) ==
    IF positives = <<>> /\ negatives = <<>> THEN Ok(emit(g, Xorpd0), "Double")
    ELSE IF positives # <<>>
    THEN LET g1 == generate_double_expr(g, Head(positives))
             g2 == flip_aligned(emit(g1, PushAcc))
             g3 == double_terms(g2, Tail(positives), AddTerm)
             g4 == double_terms(g3, negatives, SubTerm)
         IN  IF g1.st # "ok" THEN g1
             ELSE IF g3.st # "ok" THEN g3
             ELSE IF g4.st # "ok" THEN g4
             ELSE Ok(flip_aligned(emit(g4, PopAcc)), "Double")
    ELSE LET g1 == generate_double_expr(g, Head(negatives))
             g2 == flip_aligned(emit(g1, PushAcc))
             g3 == double_terms(g2, Tail(negatives), AddTerm)
         IN  IF g1.st # "ok" THEN g1
             ELSE IF g3.st # "ok" THEN g3
             ELSE Ok(flip_aligned(emit(g3, NegAcc)), "Double")

generate_mul_div(g, numerators, denominators) ==
    IF numerators = <<>> /\ denominators = <<>> THEN Ok(generate_lit(g, Num(1)), "Double")
    ELSE IF numerators # <<>>
    THEN LET g1 == generate_double_expr(g, Head(numerators))
             g2 == flip_aligned(emit(g1, PushAcc))
             g3 == double_terms(g2, Tail(numerators), MulTerm)
             g4 == double_terms(g3, denominators, DivTerm)
         IN  IF g1.st # "ok" THEN g1
             ELSE IF g3.st # "ok" THEN g3
             ELSE IF g4.st # "ok" THEN g4
             ELSE Ok(flip_aligned(emit(g4, PopAcc)), "Double")
    ELSE LET g1 == generate_double_expr(g, Head(denominators))
             g2 == flip_aligned(emit(g1, PushAcc))
             g3 == double_terms(g2, Tail(denominators), MulTerm)
         IN  IF g1.st # "ok" THEN g1
             ELSE IF g3.st # "ok" THEN g3
             ELSE Ok(flip_aligned(emit(g3, RecipAcc)), "Double")

\* for arg in rest.iter().rev() { ... } of "++"; rest is already reversed.
concat_fold(g, rest) ==
    IF rest = <<>> THEN g
    ELSE LET g1 == generate_cow_expr(emit(g, ConcatSave), Head(rest))
         IN  IF g1.st # "ok" THEN g1 ELSE concat_fold(emit(g1, ConcatStep), Tail(rest))

\* for arg in rest { self.generate_bool_expr(arg)?; test rax, rax; jcc label } of and / or
short_circuit_args(g, rest, condition, label) ==
    IF rest = <<>> THEN g
    ELSE LET g1 == generate_bool_expr(g, Head(rest))
         IN  IF g1.st # "ok" THEN g1
             ELSE short_circuit_args(emit(g1, ShortCircuit(condition, label)),
                                     Tail(rest), condition, label)

generate_comparison(g, ordering0, lhs0, rhs0) ==
    LET c == comparison_operands(ordering0, lhs0, rhs0)
        g1 == generate_expr(g, c.lhs)
        g2 == flip_aligned(emit(g1, CmpSave))
        g3 == generate_expr(g2, c.rhs)
    IN  IF g1.st # "ok" THEN g1
        ELSE IF g1.typ # "Double" THEN Todo(g1)
        ELSE IF g3.st # "ok" THEN g3
        ELSE CASE g3.typ = "Double" ->
                    Ok(flip_aligned(emit(emit(g3,
                        CmpDouble(IF c.ordering = "Less" THEN "setb" ELSE "sete")), CmpRelease)), "Bool")
               [] g3.typ = "Bool" /\ c.ordering = "Equal" ->
                    Ok(flip_aligned(emit(emit(g3, CmpBoolEq), CmpRelease)), "Bool")
               [] OTHER -> Todo(g3)

mathop(g, func_name, args, code) ==
    IF Len(args) = 1
    THEN LET g1 == generate_double_expr(g, args[1])
         IN  IF g1.st # "ok" THEN g1 ELSE Ok(emit(g1, code), "Double")
    ELSE wrong_arg_count(g, func_name, 1, args)

libc_mathop(g, func_name, args, libc) ==
    IF Len(args) = 1
    THEN LET g1 == generate_double_expr(g, args[1])
         IN  IF g1.st # "ok" THEN g1 ELSE Ok(emit(g1, <<CallPlt(libc)>>), "Double")
    ELSE wrong_arg_count(g, func_name, 1, args)
set_aligned_true(g, v) == [g EXCEPT !.stack_aligned = TRUE]
set_aligned(g, v) == [g EXCEPT !.stack_aligned = v]
pad_if(g, stack_was_aligned, code) == IF stack_was_aligned THEN g ELSE emit(g, code)

generate_concat(g, args) ==
    IF args = <<>> THEN Ok(emit(g, ConcatEmpty), "StaticStr")
    ELSE IF Len(args) = 1 THEN generate_expr(g, args[1])
    ELSE LET g1 == generate_cow_expr(g, Last(args))
             stack_was_aligned == g1.stack_aligned
             g2 == set_aligned(pad_if(g1, stack_was_aligned, <<SubRsp(8)>>), TRUE)
             g3 == concat_fold(g2, Reverse(Front(args)))
         IN  IF g1.st # "ok" THEN g1
             ELSE IF g3.st # "ok" THEN g3
             ELSE Ok(set_aligned(pad_if(g3, stack_was_aligned, <<AddRsp(8)>>), stack_was_aligned),
                     "OwnedString")

short_circuit_condition_jz(func_name) == "jz"
short_circuit_condition(func_name) == IF func_name = "and" THEN "jz" ELSE "jnz"

generate_and_or(g, func_name, args) ==
    IF args = <<>> THEN generate_lit(g, IF func_name = "and" THEN Bool(TRUE) ELSE Bool(FALSE))
    ELSE IF Len(args) = 1 THEN generate_expr(g, args[1])
    ELSE LET short_circuit == g.uid
             g1 == short_circuit_args(new_uid(g), Front(args), short_circuit_condition(func_name),
                                      short_circuit)
             g2 == generate_bool_expr(g1, Last(args))
         IN  IF g1.st # "ok" THEN g1
             ELSE IF g2.st # "ok" THEN g2
             ELSE Ok(emit(g2, LocalLabel(short_circuit)), "Bool")

generate_str_length(g, args) ==
    IF Len(args) = 1
    THEN LET g1 == generate_cow_expr(g, args[1])
             stack_was_aligned == g1.stack_aligned
             g2 == set_aligned(emit(g1, StrLengthReserve(stack_was_aligned)), TRUE)
             g3 == emit(emit(g2, StrLengthCode), StrLengthRelease(stack_was_aligned))
         IN  IF g1.st # "ok" THEN g1
             ELSE Ok(set_aligned(g3, stack_was_aligned), "Double")
    ELSE wrong_arg_count(g, "str-length", 1, args)

generate_char_at(g, args) ==
    IF Len(args) = 2
    THEN LET g1 == generate_cow_expr(g, args[1])
             g2 == generate_double_expr(emit(g1, CharAtSave), args[2])
             stack_was_aligned == g2.stack_aligned
             g3 == set_aligned(pad_if(g2, stack_was_aligned, <<SubRsp(8)>>), TRUE)
             g4 == pad_if(emit(g3, CharAtCode), stack_was_aligned, <<AddRsp(8)>>)
         IN  IF g1.st # "ok" THEN g1
             ELSE IF g2.st # "ok" THEN g2
             ELSE Ok(set_aligned(g4, stack_was_aligned), "OwnedString")
    ELSE wrong_arg_count(g, "char-at", 2, args)

generate_mod(g, args) ==
    IF Len(args) = 2
    THEN LET g1 == generate_double_expr(g, args[2])
             stack_was_aligned == g1.stack_aligned
             g2 == set_aligned(emit(g1, ModReserve(stack_was_aligned)), TRUE)
             g3 == generate_double_expr(emit(g2, ModSave), args[1])
             g4 == emit(emit(g3, ModCode), ModRelease(stack_was_aligned))
         IN  IF g1.st # "ok" THEN g1
             ELSE IF g3.st # "ok" THEN g3
             ELSE Ok(set_aligned(g4, stack_was_aligned), "Double")
    ELSE wrong_arg_count(g, "mod", 2, args)

generate_list_get(g, args) ==
    IF Len(args) = 2 /\ args[1].k = "Sym"
    THEN IF ~lookup_list(args[1].name)
         THEN Err(g, [kind |-> "UnknownVarOrList", name |-> args[1].name, expected |-> 0, got |-> 0])
         ELSE LET g1 == generate_any_expr(g, args[2])
              IN  IF g1.st # "ok" THEN g1
                  ELSE Ok(aligning_call(emit(g1, ListGetArgs(list_id(args[1].name))), "list_get"), "Any")
    ELSE wrong_arg_count(g, "!!", 2, args)

generate_length(g, args) ==
    IF Len(args) = 1 /\ args[1].k = "Sym"
    THEN IF ~lookup_list(args[1].name)
         THEN Err(g, [kind |-> "UnknownVarOrList", name |-> args[1].name, expected |-> 0, got |-> 0])
         ELSE Ok(emit(g, LengthCode(list_id(args[1].name))), "Double")
    ELSE wrong_arg_count(g, "length", 1, args)

generate_func_call(g, func_name, args) ==
    CASE func_name = "!!" -> generate_list_get(g, args)
      [] func_name = "++" -> generate_concat(g, args)
      [] func_name \in {"and", "or"} -> generate_and_or(g, func_name, args)
      [] func_name = "not" ->
            IF Len(args) = 1
            THEN LET g1 == generate_bool_expr(g, args[1])
                 IN  IF g1.st # "ok" THEN g1 ELSE Ok(emit(g1, NotCode), "Bool")
            ELSE wrong_arg_count(g, func_name, 1, args)
      [] func_name \in {"<", "=", ">"} ->
            IF Len(args) = 2
            THEN generate_comparison(g,
                     CASE func_name = "<" -> "Less" [] func_name = "=" -> "Equal" [] OTHER -> "Greater",
                     args[1], args[2])
            ELSE wrong_arg_count(g, func_name, 2, args)
      [] func_name = "length" -> generate_length(g, args)
      [] func_name = "str-length" -> generate_str_length(g, args)
      [] func_name = "char-at" -> generate_char_at(g, args)
      [] func_name = "mod" -> generate_mod(g, args)
      [] func_name = "abs" -> mathop(g, func_name, args, AbsCode)
      [] func_name = "floor" -> mathop(g, func_name, args, FloorCode)
      [] func_name = "ceil" -> mathop(g, func_name, args, CeilCode)
      [] func_name = "sqrt" -> mathop(g, func_name, args, SqrtCode)
      [] func_name \in {"ln", "log", "e^", "ten^", "sin", "cos", "tan", "asin", "acos", "atan"} ->
            libc_mathop(g, func_name, args, libc_name(func_name))
      [] func_name = "pressing-key" -> Todo(g)
      [] func_name = "to-num" ->
            IF Len(args) = 1
            THEN LET g1 == generate_double_expr(g, args[1])
                 IN  IF g1.st # "ok" THEN g1 ELSE Ok(g1, "Double")
            ELSE wrong_arg_count(g, func_name, 1, args)
      [] func_name = "random" -> Todo(g)
      [] OTHER -> Err(g, [kind |-> "UnknownFunction", name |-> func_name, expected |-> 0, got |-> 0])
(***************************************************************************)
(* State.  expr and aligned0 are the inputs; text, stack_aligned,          *)
(* uid_generator and result are AsmProgram after generate_expr; the rest   *)
(* is the machine running the text: pc (index of the next instruction),    *)
(* regs, the stack (head = [rsp]), the heap, the variable and list storage *)
(* (slots), the parameter area (frame), the calls made (log) and the       *)
(* indices of the instructions executed (visited).                         *)
(***************************************************************************)
\* ---------------------------------------------------------------------------
\* Macro expansion (macros.rs).
\* ---------------------------------------------------------------------------

\* The syntax tree. A Node keeps its head as the first of its branches and its tail after
\* it; an Unquote has its unquoted tree as its only branch; the other forms are leaves.
AstSym(s) == [t |-> "Sym", s |-> s, kids |-> <<>>]
AstString(s) == [t |-> "String", s |-> s, kids |-> <<>>]
AstNum(s) == [t |-> "Num", s |-> s, kids |-> <<>>]
AstNode(head, tail) == [t |-> "Node", s |-> "", kids |-> <<head>> \o tail]
AstUnquote(unquoted) == [t |-> "Unquote", s |-> "", kids |-> <<unquoted>>]
NoAst == [t |-> "None", s |-> "", kids |-> <<>>]

AstHead(a) == a.kids[1]
AstTail(a) == SubSeq(a.kids, 2, Len(a.kids))
\* Ast::Node(box Ast::Sym(sym, ..), ..)
IsCall(a) == a.t = "Node" /\ AstHead(a).t = "Sym"
is_the_function_call(a, name) == IsCall(a) /\ AstHead(a).s = name

\* The outcome of a rewrite: the tree, whether a rule fired (Dirty) or none did (Clean),
\* and the error that ended it. Diverges is the outcome of a rewrite that never returns.
Clean(a) == [st |-> "ok", dirty |-> FALSE, ast |-> a, err |-> ""]
Dirty(a) == [st |-> "ok", dirty |-> TRUE, ast |-> a, err |-> ""]
Failed(e) == [st |-> "err", dirty |-> FALSE, ast |-> NoAst, err |-> e]
Diverges == [st |-> "diverges", dirty |-> FALSE, ast |-> NoAst, err |-> ""]

\* MacroContext::default(): no expanded form and no macro.
NoContext ==
    [asts |-> <<>>, symbols |-> [n \in {} |-> NoAst],
     functions |-> [n \in {} |-> [params |-> <<>>, body |-> NoAst]]]

\* The element of a one-element set: The({e(v) : v \in {d}}) is e of the value of d.
The(S) == CHOOSE v \in S : TRUE

\* The texts of a list of leaves one after another.
RECURSIVE ConcatTexts(_)
ConcatTexts(as) == IF as = <<>> THEN "" ELSE as[1].s \o ConcatTexts(Tail(as))

\* The files there are to include: their text and the forms it parses into.
Files ==
    [lib |-> [text |-> "(macro y 5)", forms |-> <<AstNode(AstSym("macro"), <<AstSym("y"), AstNum("5")>>)>>],
     rec |-> [text |-> "x", forms |-> <<AstSym("x")>>]]

\* include: the forms of the file named by the only argument.
include(args) ==
    IF Len(args) = 1 /\ args[1].t = "String"
    THEN IF args[1].s \in DOMAIN Files
         THEN [st |-> "ok", forms |-> Files[args[1].s].forms, err |-> ""]
         ELSE [st |-> "err", forms |-> <<>>, err |-> "panic"]
    ELSE [st |-> "err", forms |-> <<>>, err |-> "InvalidArgsForInclude"]

use_builtin_macros(a) ==
    IF ~IsCall(a) THEN Clean(a)
    ELSE LET sym == AstHead(a).s
             args == AstTail(a)
         IN  CASE sym = "str-concat!" ->
                    IF \A i \in 1..Len(args) : args[i].t = "String"
                    THEN Dirty(AstString(ConcatTexts(args)))
                    ELSE Clean(a)
               [] sym = "sym-concat!" ->
                    IF args = <<>> THEN Failed("SymConcatEmptySymbol")
                    ELSE IF \A i \in 1..Len(args) : args[i].t = "Sym"
                    THEN Dirty(AstSym(ConcatTexts(args)))
                    ELSE Clean(a)
               [] sym = "include-str" ->
                    IF Len(args) = 1 /\ args[1].t = "String"
                    THEN IF args[1].s \in DOMAIN Files
                         THEN Dirty(AstString(Files[args[1].s].text))
                         ELSE Failed("panic")
                    ELSE Clean(a)
               [] OTHER -> Clean(a)

\* The tail with every (include ...) item replaced by the forms of its file.
RECURSIVE IncludeItems(_)
IncludeItems(items) ==
    IF items = <<>> THEN [st |-> "ok", forms |-> <<>>, err |-> ""]
    ELSE LET item == Head(items)
             first == IF is_the_function_call(item, "include")
                      THEN include(AstTail(item))
                      ELSE [st |-> "ok", forms |-> <<item>>, err |-> ""]
         IN  IF first.st # "ok" THEN first
             ELSE LET rest == IncludeItems(Tail(items))
                  IN  IF rest.st # "ok" THEN rest
                      ELSE [st |-> "ok", forms |-> first.forms \o rest.forms, err |-> ""]

use_inline_include(a) ==
    IF a.t # "Node" THEN Clean(a)
    ELSE IF ~\E i \in 1..Len(AstTail(a)) : is_the_function_call(AstTail(a)[i], "include")
    THEN Clean(a)
    ELSE LET tail == IncludeItems(AstTail(a))
         IN  IF tail.st # "ok" THEN Failed(tail.err)
             ELSE Dirty(AstNode(AstHead(a), tail.forms))

\* Bindings of metavariables: a set of <<name, tree>> pairs with one pair per name.
HasBinding(bindings, var) == \E b \in bindings : b[1] = var
Binding(bindings, var) == (CHOOSE b \in bindings : b[1] = var)[2]

\* interpolate: the body with every unquoted metavariable replaced by its binding and
\* every other unquote replaced by what it unquotes.
RECURSIVE interpolate(_, _)
RECURSIVE InterpolateAll(_, _)
interpolate(body, bindings) ==
    IF body.t = "Unquote"
    THEN IF body.kids[1].t = "Sym"
         THEN IF HasBinding(bindings, body.kids[1].s)
              THEN Clean(Binding(bindings, body.kids[1].s))
              ELSE Failed("UnknownMetavariable")
         ELSE Clean(body.kids[1])
    ELSE The({IF r.st # "ok" THEN Failed(r.err) ELSE Clean([body EXCEPT !.kids = r.forms]) :
              r \in {InterpolateAll(body.kids, bindings)}})
InterpolateAll(trees, bindings) ==
    IF trees = <<>> THEN [st |-> "ok", forms |-> <<>>, err |-> ""]
    ELSE The({IF first.st # "ok" THEN [st |-> "err", forms |-> <<>>, err |-> first.err]
              ELSE The({IF rest.st # "ok" THEN rest
                        ELSE [rest EXCEPT !.forms = <<first.ast>> \o rest.forms] :
                        rest \in {InterpolateAll(Tail(trees), bindings)}}) :
              first \in {interpolate(Head(trees), bindings)}})

\* Parameter::from_ast: a parameter is a symbol (a variable) or a call of a symbol on
\* parameters (a constructor); anything else is not implemented (todo!()).
RECURSIVE from_ast(_)
from_ast(a) ==
    \/ a.t = "Sym"
    \/ IsCall(a) /\ \A i \in 1..Len(AstTail(a)) : from_ast(AstTail(a)[i])

\* Parameter::pattern_match, threading the bindings made so far through the subparameters.
RECURSIVE pattern_match(_, _, _)
RECURSIVE PatternMatchAll(_, _, _)
pattern_match(param, a, r) ==
    IF r.st # "ok" THEN r
    ELSE IF param.t = "Sym"
    THEN IF HasBinding(r.bindings, param.s)
         THEN [st |-> "err", bindings |-> {}, err |-> "panic"]
         ELSE [r EXCEPT !.bindings = @ \cup {<<param.s, a>>}]
    ELSE IF IsCall(a) /\ AstHead(a).s = AstHead(param).s /\ Len(AstTail(param)) = Len(AstTail(a))
    THEN PatternMatchAll(AstTail(param), AstTail(a), r)
    ELSE [st |-> "err", bindings |-> {}, err |-> "FunctionMacroMatchFailed"]
PatternMatchAll(params, trees, r) ==
    IF params = <<>> THEN r
    ELSE PatternMatchAll(Tail(params), Tail(trees), pattern_match(Head(params), Head(trees), r))

\* MacroContext::define: the context with the macro of a (macro signature body) form added.
define(c, args) ==
    IF args = <<>> THEN [st |-> "err", ctx |-> c, err |-> "MacroDefinitionMissingSignature"]
    ELSE LET signature == args[1]
         IN  IF signature.t = "Sym" \/ IsCall(signature)
             THEN IF IsCall(signature)
                     /\ ~\A i \in 1..Len(AstTail(signature)) : from_ast(AstTail(signature)[i])
                  THEN [st |-> "err", ctx |-> c, err |-> "panic"]
                  ELSE IF Len(args) < 2
                  THEN [st |-> "err", ctx |-> c, err |-> "MacroDefinitionMissingBody"]
                  ELSE IF Len(args) > 2
                  THEN [st |-> "err", ctx |-> c, err |-> "panic"]
                  ELSE IF signature.t = "Sym"
                  THEN [st |-> "ok", err |-> "",
                        ctx |-> [c EXCEPT !.symbols =
                                    [n \in DOMAIN @ \cup {signature.s} |->
                                        IF n = signature.s THEN args[2] ELSE @[n]]]]
                  ELSE [st |-> "ok", err |-> "",
                        ctx |-> [c EXCEPT !.functions =
                                    [n \in DOMAIN @ \cup {AstHead(signature).s} |->
                                        IF n = AstHead(signature).s
                                        THEN [params |-> AstTail(signature), body |-> args[2]]
                                        ELSE @[n]]]]
             ELSE [st |-> "err", ctx |-> c, err |-> "InvalidMacroSignature"]

RECURSIVE transform_deep(_, _)
RECURSIVE try_repeat(_, _, _, _)
RECURSIVE bottom_up(_, _)
RECURSIVE BottomUpAll(_, _)
RECURSIVE transform_shallow(_, _)
RECURSIVE use_user_defined_macros(_, _)
RECURSIVE BindArgs(_, _, _, _)

\* The bindings of the parameters to the fully expanded arguments, left to right.
BindArgs(c, params, args, r) ==
    IF params = <<>> \/ r.st # "ok" THEN r
    ELSE The({IF arg.st # "ok" THEN [st |-> arg.st, bindings |-> {}, err |-> arg.err]
              ELSE BindArgs(c, Tail(params), Tail(args), pattern_match(Head(params), arg.ast, r)) :
              arg \in {transform_deep(c, Head(args))}})

use_user_defined_macros(c, a) ==
    IF a.t = "Sym"
    THEN IF a.s \in DOMAIN c.symbols THEN Dirty(c.symbols[a.s]) ELSE Clean(a)
    ELSE IF IsCall(a) /\ AstHead(a).s \in DOMAIN c.functions
    THEN LET func_macro == c.functions[AstHead(a).s]
             args == AstTail(a)
         IN  IF Len(args) # Len(func_macro.params)
             THEN Failed("FunctionMacroWrongArgCount")
             ELSE The({IF r.st = "diverges" THEN Diverges
                       ELSE IF r.st # "ok" THEN Failed(r.err)
                       ELSE The({IF body.st # "ok" THEN body ELSE Dirty(body.ast) :
                                 body \in {interpolate(func_macro.body, r.bindings)}}) :
                       r \in {BindArgs(c, func_macro.params, args,
                                       [st |-> "ok", bindings |-> {}, err |-> ""])}})
    ELSE Clean(a)

\* Rewrite::try_bind: the next rule applied to the tree the previous one left, Dirty if
\* either fired.
ThenRule(dirty, next) ==
    IF next.st # "ok" THEN next ELSE [next EXCEPT !.dirty = dirty \/ @]

transform_shallow(c, a) ==
    The({IF r1.st # "ok" THEN r1
         ELSE The({IF r2.st # "ok" THEN r2
                   ELSE The({ThenRule(r2.dirty, r3) : r3 \in {use_inline_include(r2.ast)}}) :
                   r2 \in {The({ThenRule(r1.dirty, u) :
                                u \in {use_user_defined_macros(c, r1.ast)}})}}) :
         r1 \in {use_builtin_macros(a)}})

\* TreeWalk::bottom_up: the rules applied to every branch, innermost first, and then to
\* the tree the rewritten branches make.
BottomUpAll(c, trees) ==
    IF trees = <<>> THEN [st |-> "ok", dirty |-> FALSE, forms |-> <<>>, err |-> ""]
    ELSE The({IF first.st # "ok"
              THEN [st |-> first.st, dirty |-> FALSE, forms |-> <<>>, err |-> first.err]
              ELSE The({IF rest.st # "ok" THEN rest
                        ELSE [rest EXCEPT !.dirty = first.dirty \/ @,
                                          !.forms = <<first.ast>> \o @] :
                        rest \in {BottomUpAll(c, Tail(trees))}}) :
              first \in {bottom_up(c, Head(trees))}})

bottom_up(c, a) ==
    The({IF branches.st = "diverges" THEN Diverges
         ELSE IF branches.st # "ok" THEN Failed(branches.err)
         ELSE The({ThenRule(branches.dirty, r) :
                   r \in {transform_shallow(c, [a EXCEPT !.kids = branches.forms])}}) :
         branches \in {BottomUpAll(c, a.kids)}})

\* Rewrite::try_repeat: rounds of the rewrite until one leaves the tree Clean. A round
\* is a function of its tree (the context does not change during transform_deep), so
\* once a Dirty round leaves a tree that a round has started from (one of seen, or its
\* own), the same rounds follow each other without end: try_repeat never returns.
try_repeat(c, a, dirty, seen) ==
    The({IF r.st # "ok" THEN r
         ELSE IF ~r.dirty THEN [r EXCEPT !.dirty = dirty]
         ELSE IF r.ast \in seen \cup {a} THEN Diverges
         ELSE try_repeat(c, r.ast, TRUE, seen \cup {a}) :
         r \in {bottom_up(c, a)}})

transform_deep(c, a) == try_repeat(c, a, FALSE, {})

VARIABLES expr, aligned0, phase, text, stack_aligned, uid_generator, result,
          pc, regs, stack, heap, slots, frame, log, visited,
          marks, program, proc_index, entry_points, file,
          ctx, forms, ast, round_parity

vars == <<expr, aligned0, phase, text, stack_aligned, uid_generator, result,
          pc, regs, stack, heap, slots, frame, log, visited,
          marks, program, proc_index, entry_points, file,
          ctx, forms, ast, round_parity>>
macroVars == <<ctx, forms, ast, round_parity>>
machineVars == <<pc, regs, stack, heap, slots, frame, log, visited>>
fileVars == <<program, proc_index, entry_points, file>>

RegNames == {"rax", "rdx", "rdi", "rsi", "rcx", "xmm0", "xmm1", "zf", "cf", "pf"}
\* eax, edx and al name (parts of) rax and rdx.
Canon(r) == CASE r \in {"eax", "al"} -> "rax" [] r = "edx" -> "rdx" [] OTHER -> r

\* A word of the enclosing code's stack: what lies under the expression's own words.
Outer == W("outer", 0, 0)

Bytes_true == <<116, 114, 117, 101>>
Bytes_false == <<102, 97, 108, 115, 101>>

\* The bytes of the static string with label id: a runtime constant or a staticstr directive.
StaticBytes(id) ==
    CASE id = str_empty -> <<>>
      [] id = str_true -> Bytes_true
      [] id = str_false -> Bytes_false
      [] \E i \in 1..Len(text) : text[i].op = "staticstr" /\ text[i].a.k = id ->
            text[CHOOSE i \in 1..Len(text) : text[i].op = "staticstr" /\ text[i].a.k = id].db
      [] OTHER -> <<>>

\* The n bytes at address p (-1: a byte the program never wrote).
BytesAt(M, p, n) ==
    LET src == CASE p.t = "sptr" -> StaticBytes(p.a)
                 [] p.t = "hptr" /\ p.a \in 1..Len(M.heap) -> M.heap[p.a].bytes
                 [] OTHER -> <<>>
    IN  [i \in 1..n |-> IF p.b + i \in 1..Len(src) THEN src[p.b + i] ELSE -1]

\* The string a (pointer, length) pair denotes.
StrOf(M, p, len) == IF len.t = "int" /\ len.a >= 0 THEN BytesAt(M, p, len.a) ELSE <<-1>>

Read(M, o) ==
    CASE o.m = "reg" -> M.regs[Canon(o.r)]
      [] o.m = "imm" -> o.w
      [] o.m = "rsp" -> IF (o.k \div 8) + 1 \in 1..Len(M.stack) THEN M.stack[(o.k \div 8) + 1] ELSE Junk
      [] o.m = "rbp" -> IF o.k \in DOMAIN M.frame THEN M.frame[o.k] ELSE Junk
      [] o.m = "var" -> IF <<o.w.a, o.k>> \in DOMAIN M.slots THEN M.slots[<<o.w.a, o.k>>] ELSE Junk
      [] OTHER -> Junk

Write(M, o, w) ==
    CASE o.m = "reg" -> [M EXCEPT !.regs[Canon(o.r)] = w]
      [] o.m = "rsp" /\ (o.k \div 8) + 1 \in 1..Len(M.stack) -> [M EXCEPT !.stack[(o.k \div 8) + 1] = w]
      [] o.m = "rbp" /\ o.k \in DOMAIN M.frame -> [M EXCEPT !.frame[o.k] = w]
      [] o.m = "var" /\ <<o.w.a, o.k>> \in DOMAIN M.slots -> [M EXCEPT !.slots[<<o.w.a, o.k>>] = w]
      [] OTHER -> M

JunkWords(n) == [i \in 1..n |-> Junk]
Drop(s, n) == SubSeq(s, n + 1, Len(s))

\* Integer and address arithmetic of add.
AddW(x, y) ==
    CASE x.t = "int" /\ y.t = "int" -> IntW(x.a + y.a)
      [] x.t \in {"sptr", "hptr"} /\ y.t = "int" -> W(x.t, x.a, x.b + y.a)
      [] OTHER -> Junk

XorW(x, y) ==
    CASE y = SignBit -> FlipSign(x)
      [] x.t = "int" /\ y.t = "int" /\ x.a \in {0, 1} /\ y.a \in {0, 1} -> IntW((x.a + y.a) % 2)
      [] OTHER -> Junk

AndW(x, y) == IF y = AbsMask THEN ClearSign(x) ELSE Junk

Floor(w) == IF w.t = "f64" THEN F(w.a \div w.b, 1) ELSE w
Ceil(w) == IF w.t = "f64" THEN (IF w.a = 0 THEN w ELSE
                                IF -((-w.a) \div w.b) = 0 /\ w.a < 0 THEN NegZero
                                ELSE F(-((-w.a) \div w.b), 1)) ELSE w
Sqrt(w) ==
    CASE w.t = "f64" /\ w.a < 0 -> NaN
      [] w.t = "f64" /\ w.b = 1 /\ (\E r \in 0..w.a : r * r = w.a) ->
            F(CHOOSE r \in 0..w.a : r * r = w.a, 1)
      [] w.t \in {"nzero", "pinf", "nan"} -> w
      [] w.t = "ninf" -> NaN
      [] OTHER -> FOpaque

\* ucomisd a, b: the sets of (zf, pf, cf) it can leave.
Ucomisd(x, y) ==
    CASE x.t = "nan" \/ y.t = "nan" -> {<<1, 1, 1>>}
      [] x.t \in {"fopq", "junk"} \/ y.t \in {"fopq", "junk"} \/ ~(x.t \in {"f64", "nzero", "pinf", "ninf"})
           \/ ~(y.t \in {"f64", "nzero", "pinf", "ninf"}) ->
            {<<1, 1, 1>>, <<0, 0, 1>>, <<1, 0, 0>>, <<0, 0, 0>>}
      [] x.t = "pinf" \/ y.t = "ninf" -> IF x.t = y.t THEN {<<1, 0, 0>>} ELSE {<<0, 0, 0>>}
      [] x.t = "ninf" \/ y.t = "pinf" -> {<<0, 0, 1>>}
      [] Num_(x) * Den_(y) < Num_(y) * Den_(x) -> {<<0, 0, 1>>}
      [] Num_(x) * Den_(y) = Num_(y) * Den_(x) -> {<<1, 0, 0>>}
      [] OTHER -> {<<0, 0, 0>>}

LabelIndex(u) == CHOOSE i \in 1..Len(text) : text[i].op = "label" /\ text[i].a.k = u
Advance(M) == [M EXCEPT !.pc = @ + 1, !.visited = @ \cup {M.pc}]

\* What one instruction other than a call does: the set of machine states it can leave.
ExecIns(M, i) ==
    LET x == Read(M, i.a)
        y == Read(M, i.b)
        N == Advance(M)
    IN  CASE i.op \in {"mov", "movsd", "movq", "lea"} -> {Write(N, i.a, y)}
          [] i.op = "push" -> {[N EXCEPT !.stack = <<x>> \o @]}
          [] i.op = "pop" ->
                IF M.stack = <<>> THEN {Write(N, i.a, Junk)}
                ELSE {Write([N EXCEPT !.stack = Tail(@)], i.a, M.stack[1])}
          [] i.op = "sub" /\ i.a = Reg("rsp") -> {[N EXCEPT !.stack = JunkWords(y.a \div 8) \o @]}
          [] i.op = "add" /\ i.a = Reg("rsp") -> {[N EXCEPT !.stack = Drop(@, y.a \div 8)]}
          [] i.op = "add" -> {Write(N, i.a, AddW(x, y))}
          [] i.op = "xor" -> {Write(N, i.a, IF i.a = i.b THEN IntW(0) ELSE XorW(x, y))}
          [] i.op = "xorpd" -> {Write(N, i.a, IF i.a = i.b THEN F(0, 1) ELSE Junk)}
          [] i.op = "andpd" -> {Write(N, i.a, AndW(x, y))}
          [] i.op = "addsd" -> {Write(N, i.a, AddF(x, y))}
          [] i.op = "subsd" -> {Write(N, i.a, SubF(x, y))}
          [] i.op = "mulsd" -> {Write(N, i.a, MulF(x, y))}
          [] i.op = "divsd" -> {Write(N, i.a, DivF(x, y))}
          [] i.op = "roundsd" -> {Write(N, i.a, IF y = IntW(1) THEN Floor(x) ELSE Ceil(x))}
          [] i.op = "sqrtsd" -> {Write(N, i.a, Sqrt(y))}
          [] i.op = "test" ->
                IF x.t = "int"
                THEN {[N EXCEPT !.regs["zf"] = IntW(IF x.a = 0 THEN 1 ELSE 0)]}
                ELSE {[N EXCEPT !.regs["zf"] = IntW(z)] : z \in {0, 1}}
          [] i.op \in {"jz", "jnz"} ->
                LET taken == [N EXCEPT !.pc = LabelIndex(i.a.k)]
                    zf == M.regs["zf"]
                IN  IF zf.t # "int" THEN {N, taken}
                    ELSE IF (zf.a = 1) = (i.op = "jz") THEN {taken} ELSE {N}
          [] i.op = "ucomisd" ->
                {[N EXCEPT !.regs["zf"] = IntW(f[1]), !.regs["pf"] = IntW(f[2]),
                           !.regs["cf"] = IntW(f[3])] : f \in Ucomisd(x, y)}
          [] i.op \in {"setb", "sete"} ->
                LET flag == M.regs[IF i.op = "setb" THEN "cf" ELSE "zf"]
                IN  {Write(N, i.a, IF x = IntW(0) /\ flag.t = "int" THEN flag ELSE Junk)}
          [] OTHER -> {N}

(***************************************************************************)
(* The runtime support routines and the libc routines the text calls.      *)
(* Each takes its arguments where the generated code leaves them and       *)
(* returns in rax/rdx or xmm0.                                             *)
(***************************************************************************)
RECURSIVE Digits(_)
Digits(n) == IF n < 10 THEN <<48 + n>> ELSE Digits(n \div 10) \o <<48 + (n % 10)>>

\* The text of a double: integers in decimal, anything else as one unknown byte.
Format(w) ==
    CASE w.t = "f64" /\ w.b = 1 /\ w.a >= 0 -> Digits(w.a)
      [] w.t = "f64" /\ w.b = 1 -> <<45>> \o Digits(-w.a)
      [] w.t = "nzero" -> <<45, 48>>
      [] OTHER -> <<-1>>

RECURSIVE ParseDigits(_, _)
ParseDigits(s, acc) ==
    IF s = <<>> THEN acc ELSE ParseDigits(Tail(s), acc * 10 + (Head(s) - 48))

\* The number a string denotes: a run of decimal digits, anything else is 0.
Parse(s) ==
    IF s # <<>> /\ \A j \in 1..Len(s) : s[j] \in 48..57 THEN F(ParseDigits(s, 0), 1)
    ELSE IF \E j \in 1..Len(s) : s[j] = -1 THEN FOpaque
    ELSE F(0, 1)

\* Truthiness of a string: "", "0" and "false" are false.
StrTruth(s) ==
    IF \E j \in 1..Len(s) : s[j] = -1 THEN {0, 1}
    ELSE IF s \in {<<>>, <<48>>, Bytes_false} THEN {0} ELSE {1}

DoubleTruth(w) ==
    CASE w.t \in {"f64", "nzero", "nan"} -> IF IsZero(w) \/ w.t = "nan" THEN {0} ELSE {1}
      [] w.t \in {"pinf", "ninf"} -> {1}
      [] OTHER -> {0, 1}

Trunc(w) == IF w.t = "f64" THEN (IF w.a >= 0 THEN w.a \div w.b ELSE -((-w.a) \div w.b)) ELSE 0

Fmod(x, y) ==
    CASE x.t = "nan" \/ y.t = "nan" \/ ~IsFinite(x) \/ IsZero(y) ->
            IF x.t \in {"fopq", "junk"} \/ y.t \in {"fopq", "junk"} THEN FOpaque ELSE NaN
      [] ~IsFinite(y) -> IF y.t \in {"pinf", "ninf"} THEN x ELSE FOpaque
      [] IsZero(x) -> x
      [] OTHER ->
            LET r == SubF(x, MulF(y, F(Trunc(DivF(x, y)), 1)))
            IN  IF IsZero(r) /\ IsNegative(x) THEN NegZero ELSE r

\* malloc: a fresh allocation of n unwritten bytes.
Alloc(M, bytes) == [M EXCEPT !.heap = Append(@, [bytes |-> bytes, live |-> TRUE])]
Fresh(M) == HPtr(Len(M.heap) + 1, 0)

\* memcpy(dst, src, n) into a heap allocation; a byte count that is no number, or a
\* copy past the end of the allocation, leaves the allocation's contents unknown.
Memcpy(M, dst, src, n) ==
    IF dst.t = "hptr" /\ dst.a \in 1..Len(M.heap)
    THEN LET old == M.heap[dst.a].bytes
         IN  IF n.t = "int" /\ n.a >= 0 /\ dst.b >= 0 /\ dst.b + n.a <= Len(old)
             THEN LET new == BytesAt(M, src, n.a)
                  IN  [M EXCEPT !.heap[dst.a].bytes =
                          [j \in 1..Len(old) |->
                              IF j \in (dst.b + 1)..(dst.b + n.a) THEN new[j - dst.b] ELSE old[j]]]
             ELSE [M EXCEPT !.heap[dst.a].bytes = [j \in 1..Len(old) |-> -1]]
    ELSE M

\* Releasing a (pointer, length) pair frees the allocation of an owned string.
Release(M, p) ==
    IF p.t = "hptr" /\ p.b = 0 /\ p.a \in 1..Len(M.heap)
    THEN [M EXCEPT !.heap[p.a].live = FALSE]
    ELSE M
\* The elements of the list, as Any pairs, and the Any pair of a 1-based index.
ListElems == <<<<IntW(2), F(7, 1)>>>>

AnyToDouble(M, tag, payload) ==
    CASE tag = IntW(2) -> payload
      [] tag \in {IntW(0), IntW(1)} -> F(tag.a, 1)
      [] tag.t \in {"sptr", "hptr"} -> Parse(StrOf(M, tag, payload))
      [] OTHER -> FOpaque

NoRegs == [r \in {} |-> Junk]

\* What a routine does before it returns: the set of <<machine state, registers it sets>>.
Routine(M, name) ==
    LET rax == M.regs["rax"]
        rdx == M.regs["rdx"]
        rdi == M.regs["rdi"]
        rsi == M.regs["rsi"]
        xmm0 == M.regs["xmm0"]
        xmm1 == M.regs["xmm1"]
        top == Read(M, Stk(0))
        snd == Read(M, Stk(8))
    IN  CASE name = "malloc" ->
                LET n == IF rdi.t = "int" /\ rdi.a >= 0 THEN rdi.a ELSE 0
                IN  {<<Alloc(M, [j \in 1..n |-> -1]), "rax" :> Fresh(M)>>}
          [] name = "memcpy" -> {<<Memcpy(M, rdi, rsi, rdx), "rax" :> rdi>>}
          [] name = "drop_pop_cow" ->
                {<<[Release(M, top) EXCEPT !.stack = Drop(@, 2)], NoRegs>>}
          [] name = "drop_pop" ->
                {<<[Release(M, top) EXCEPT !.stack = Drop(@, 2)], NoRegs>>}
          [] name = "cowify" ->
                CASE top = IntW(2) ->
                        {<<[Alloc(M, Format(snd)) EXCEPT
                               !.stack = <<Fresh(M), IntW(Len(Format(snd)))>> \o Drop(@, 2)],
                           "rsi" :> IntW(Len(Format(snd)))>>}
                  [] top = IntW(0) ->
                        {<<[M EXCEPT !.stack = <<SPtr(str_false, 0), IntW(5)>> \o Drop(@, 2)],
                           "rsi" :> IntW(5)>>}
                  [] top = IntW(1) ->
                        {<<[M EXCEPT !.stack = <<SPtr(str_true, 0), IntW(4)>> \o Drop(@, 2)],
                           "rsi" :> IntW(4)>>}
                  [] OTHER -> {<<M, "rsi" :> snd>>}
          [] name = "str_length" -> {<<M, "rax" :> (IF snd.t = "int" THEN snd ELSE Junk)>>}
          [] name = "usize_to_double" ->
                {<<M, "xmm0" :> (IF rdi.t = "int" THEN F(rdi.a, 1) ELSE FOpaque)>>}
          [] name = "double_to_usize" ->
                {<<M, "rax" :> (IF xmm0.t = "f64" /\ xmm0.a >= 0 THEN IntW(Trunc(xmm0))
                                ELSE IF IsFinite(xmm0) THEN IntW(0) ELSE Junk)>>}
          [] name = "char_at" ->
                LET str == StrOf(M, rdi, rsi)
                IN  IF rdi.t \in {"sptr", "hptr"} /\ rdx.t = "int"
                    THEN IF rdx.a \in 1..Len(str)
                         THEN {<<Alloc(M, <<str[rdx.a]>>), ("rax" :> Fresh(M)) @@ ("rdx" :> IntW(1))>>}
                         ELSE {<<M, ("rax" :> SPtr(str_empty, 0)) @@ ("rdx" :> IntW(0))>>}
                    ELSE {<<Alloc(M, <<-1>>), ("rax" :> Fresh(M)) @@ ("rdx" :> IntW(1))>>}
          [] name = "fmod" -> {<<M, "xmm0" :> Fmod(xmm0, xmm1)>>}
          [] name \in {"log", "log10", "exp", "exp10", "sin", "cos", "tan", "asin", "acos", "atan"} ->
                {<<M, "xmm0" :> FOpaque>>}
          [] name = "clone_any" ->
                IF rdi.t = "hptr"
                THEN {<<Alloc(M, StrOf(M, rdi, rsi)), ("rax" :> Fresh(M)) @@ ("rdx" :> rsi)>>}
                ELSE {<<M, ("rax" :> rdi) @@ ("rdx" :> rsi)>>}
          [] name = "list_get" ->
                LET index == AnyToDouble(M, rdi, rsi)
                IN  IF index.t = "f64" /\ index.b = 1 /\ index.a \in 1..Len(ListElems)
                    THEN {<<M, ("rax" :> ListElems[index.a][1]) @@ ("rdx" :> ListElems[index.a][2])>>}
                    ELSE {<<M, ("rax" :> SPtr(str_empty, 0)) @@ ("rdx" :> IntW(0))>>}
          [] name = "double_to_bool" -> {<<M, "rax" :> IntW(b)>> : b \in DoubleTruth(xmm0)}
          [] name \in {"static_str_to_bool", "owned_string_to_bool"} ->
                {<<M, "rax" :> IntW(b)>> : b \in StrTruth(StrOf(M, rax, rdx))}
          [] name = "any_to_bool" -> {<<M, "rax" :> IntW(b)>> : b \in {0, 1}}
          [] name = "bool_to_double" ->
                {<<M, "xmm0" :> (IF rax.t = "int" THEN F(rax.a, 1) ELSE FOpaque)>>}
          [] name \in {"static_str_to_double", "owned_string_to_double"} ->
                {<<M, "xmm0" :> Parse(StrOf(M, rax, rdx))>>}
          [] name = "any_to_double" -> {<<M, "xmm0" :> AnyToDouble(M, rdi, rsi)>>}
          [] name = "double_to_cow" ->
                {<<Alloc(M, Format(xmm0)), ("rax" :> Fresh(M)) @@ ("rdx" :> IntW(Len(Format(xmm0))))>>}
          [] name = "bool_to_static_str" ->
                IF rax = IntW(0)
                THEN {<<M, ("rax" :> SPtr(str_false, 0)) @@ ("rdx" :> IntW(5))>>}
                ELSE {<<M, ("rax" :> SPtr(str_true, 0)) @@ ("rdx" :> IntW(4))>>}
          [] name = "any_to_cow" ->
                CASE rdi = IntW(2) ->
                        {<<Alloc(M, Format(rsi)), ("rax" :> Fresh(M)) @@ ("rdx" :> IntW(Len(Format(rsi))))>>}
                  [] rdi = IntW(0) -> {<<M, ("rax" :> SPtr(str_false, 0)) @@ ("rdx" :> IntW(5))>>}
                  [] rdi = IntW(1) -> {<<M, ("rax" :> SPtr(str_true, 0)) @@ ("rdx" :> IntW(4))>>}
                  [] OTHER -> {<<M, ("rax" :> rdi) @@ ("rdx" :> rsi)>>}
          [] OTHER -> {<<M, NoRegs>>}

\* The arguments a routine is handed, for the log.
CallArgs(M, name) ==
    CASE name = "malloc" -> <<M.regs["rdi"]>>
      [] name = "memcpy" -> <<M.regs["rdi"], M.regs["rsi"], M.regs["rdx"]>>
      [] name \in {"drop_pop_cow", "str_length", "drop_pop", "cowify"} ->
            <<Read(M, Stk(0)), Read(M, Stk(8))>>
      [] name = "char_at" -> <<M.regs["rdi"], M.regs["rsi"], M.regs["rdx"]>>
      [] name = "clone_any" -> <<M.regs["rdi"], M.regs["rsi"]>>
      [] OTHER -> <<>>

\* A call: the routine runs and returns; every register it does not return a value in
\* is caller-saved, and holds either what it held or anything else.
ExecCall(M, i) ==
    LET entry(o) == [f |-> i.a.r, pc |-> M.pc, depth |-> Len(M.stack), args |-> CallArgs(M, i.a.r),
                     ret |-> IF "rax" \in DOMAIN o[2] THEN o[2]["rax"] ELSE Junk]
    IN  { [Advance(o[1]) EXCEPT
              !.regs = [r \in RegNames |->
                          IF r \in DOMAIN o[2] THEN o[2][r]
                          ELSE IF clobber THEN Junk ELSE M.regs[r]],
              !.log = Append(@, entry(o))]
          : o \in Routine(M, i.a.r), clobber \in BOOLEAN }
(***************************************************************************)
(* Inputs.  An operand list holds one operand drawn from a set S, at any   *)
(* position, and the same literal in every other position.                 *)
(***************************************************************************)
Leaves ==
    {Lit(Num(5)), Lit(Num(0)), Lit(Str(<<97, 98>>)), Lit(Str(<<99, 100>>)),
     Lit(Bool(TRUE)), Lit(Bool(FALSE)), Sym("x"), Sym("p"), Sym("lst")}
Fill == {Lit(Num(5)), Lit(Str(<<99, 100>>))}
FuncNames ==
    {"!!", "++", "and", "or", "not", "<", "=", ">", "length", "str-length", "char-at",
     "mod", "abs", "floor", "ln", "sin", "pressing-key", "to-num", "random", "bogus"}

ArgLists(S, maxlen) ==
    {<<>>} \cup UNION {UNION {{[i \in 1..n |-> IF i = p THEN e ELSE f] : e \in S, f \in Fill}
                              : p \in 1..n} : n \in 1..maxlen}

Applied(lists) ==
    {FuncCall(f, l) : f \in FuncNames, l \in lists}
    \cup UNION {{AddSub(SubSeq(l, 1, j), SubSeq(l, j + 1, Len(l))) : j \in 0..Len(l)} : l \in lists}
    \cup UNION {{MulDiv(SubSeq(l, 1, j), SubSeq(l, j + 1, Len(l))) : j \in 0..Len(l)} : l \in lists}

Flat == Leaves \cup Applied(ArgLists(Leaves, MaxArgs))
\* Operators over operators: the inner operator has at most two literal operands.
Inner == Applied(ArgLists(Fill, 2))
Nested == Applied(ArgLists(Inner, 2))
\* A binding read more than once.
Reads ==
    {FuncCall("++", <<Sym("x"), Sym("x")>>), FuncCall("++", <<Sym("x"), Sym("p"), Sym("x")>>),
     AddSub(<<Sym("p"), Sym("q")>>, <<Sym("p")>>)}
Inputs == Flat \cup Nested \cup Reads

\* No file at the output path; no program (a lone expression is the input).
NoFile == [written |-> FALSE, content |-> <<>>]
NoProgram == [stage |-> [procedures |-> <<>>], sprites |-> <<>>]

MachineOf(st) ==
    [pc |-> st[1], regs |-> st[2], stack |-> st[3], heap |-> st[4], slots |-> st[5],
     frame |-> st[6], log |-> st[7], visited |-> st[8]]
Machine == MachineOf(<<pc, regs, stack, heap, slots, frame, log, visited>>)
SetMachine(N) ==
    /\ pc' = N.pc
    /\ regs' = N.regs
    /\ stack' = N.stack
    /\ heap' = N.heap
    /\ slots' = N.slots
    /\ frame' = N.frame
    /\ log' = N.log
    /\ visited' = N.visited

\* The variable x holds the owned string "hi"; the list holds one element; the
\* parameters p and q hold the double 3 and the boolean true.
InitSlots ==
    (<<1, 0>> :> HPtr(1, 0)) @@ (<<1, 8>> :> IntW(2)) @@
    (<<3, 0>> :> SymAddr(3)) @@ (<<3, 8>> :> IntW(Len(ListElems)))
InitFrame == (32 :> IntW(2)) @@ (40 :> F(3, 1)) @@ (16 :> IntW(1)) @@ (24 :> IntW(0))
InitHeap == <<[bytes |-> <<104, 105>>, live |-> TRUE]>>

Init ==
    /\ ctx = NoContext /\ forms = <<>> /\ ast = NoAst /\ round_parity = 0
    /\ expr \in Inputs
    /\ aligned0 \in BOOLEAN
    /\ phase = "input"
    /\ text = <<>>
    /\ stack_aligned = aligned0
    /\ uid_generator = 0
    /\ result = [st |-> "none", typ |-> "", err |-> NoErr]
    /\ pc = 1
    /\ regs = [r \in RegNames |-> Junk]
    /\ stack = IF aligned0 THEN <<>> ELSE <<Outer>>
    /\ heap = InitHeap
    /\ slots = InitSlots
    /\ frame = InitFrame
    /\ log = <<>>
    /\ visited = {}
    /\ marks = {}
    /\ program = NoProgram
    /\ proc_index = 0
    /\ entry_points = <<>>
    /\ file = NoFile

\* generate_expr on the input, from a program whose flag is aligned0.
Compile ==
    /\ phase = "input"
    /\ \E g \in {generate_expr(NewProgram(aligned0), expr)} :
           /\ text' = g.text
           /\ stack_aligned' = g.stack_aligned
           /\ uid_generator' = g.uid
           /\ result' = [st |-> g.st, typ |-> IF g.st = "ok" THEN g.typ ELSE "", err |-> g.err]
           /\ phase' = IF g.st = "ok" THEN "run" ELSE g.st
           /\ marks' = g.marks
    /\ UNCHANGED <<expr, aligned0, machineVars, fileVars, macroVars>>

Running == phase = "run" /\ pc \in 1..Len(text)
Finished == phase = "run" /\ pc = Len(text) + 1

\* The machine executes the instruction at pc.
Step ==
    /\ Running
    /\ text[pc].op # "call"
    /\ \E N \in ExecIns(Machine, text[pc]) : SetMachine(N)
    /\ UNCHANGED <<expr, aligned0, phase, text, stack_aligned, uid_generator, result, marks, fileVars, macroVars>>

StepCall ==
    /\ Running
    /\ text[pc].op = "call"
    /\ \E N \in ExecCall(Machine, text[pc]) : SetMachine(N)
    /\ UNCHANGED <<expr, aligned0, phase, text, stack_aligned, uid_generator, result, marks, fileVars, macroVars>>

Next == Compile \/ Step \/ StepCall

Spec == Init /\ [][Next]_vars
(***************************************************************************)
(* The generator of x86_64.rs, which keeps every value on the stack as two *)
(* words: the tag or the string pointer on top, the payload or the length  *)
(* below it.                                                               *)
(***************************************************************************)
PushNumCode(bits) ==
    <<Ins("mov", Reg("rax"), Imm(bits)), Ins("push", Reg("rax"), NoOpd),
      Ins("push", Imm(IntW(2)), NoOpd)>>
PushStrCode(string_id, len) ==
    <<Ins("mov", Reg("rax"), Imm(IntW(len))), Ins("push", Reg("rax"), NoOpd),
      Ins("mov", Reg("rcx"), Imm(SPtr(string_id, 0))), Ins("push", Reg("rcx"), NoOpd)>>
PushFalseCode == <<Ins("push", Imm(IntW(0)), NoOpd), Ins("push", Imm(IntW(0)), NoOpd)>>
PushTrueCode == <<Ins("push", Imm(IntW(0)), NoOpd), Ins("push", Imm(IntW(1)), NoOpd)>>

push_lit(g, lit) ==
    CASE lit.vt = "Num" -> emit(g, PushNumCode(to_bits(lit.n)))
      [] lit.vt = "String" -> emit(allocate_static_str(g, lit.s), PushStrCode(g.uid, Len(lit.s)))
      [] lit.vt = "Bool" /\ ~lit.bo -> emit(g, PushFalseCode)
      [] OTHER -> emit(g, PushTrueCode)

cowify(g) == emit(g, <<Call("cowify")>>)
drop_pop(g) == emit(g, <<Call("drop_pop")>>)

AsmConcatReserve == <<Ins("push", Imm(IntW(0)), NoOpd), Ins("push", Imm(IntW(0)), NoOpd)>>
AsmConcatCode ==
    <<Ins("mov", Reg("rdi"), Stk(24)),
      Ins("add", Reg("rdi"), Reg("rsi")),
      Ins("mov", Stk(40), Reg("rdi")),
      Call("malloc"),
      Ins("mov", Stk(32), Reg("rax")),
      Ins("mov", Reg("rdi"), Reg("rax")),
      Ins("mov", Reg("rdx"), Reg("rsi")),
      Ins("mov", Reg("rsi"), Stk(0)),
      Call("memcpy"),
      Ins("mov", Reg("rdi"), Reg("rax")),
      Ins("add", Reg("rdi"), Stk(8)),
      Ins("mov", Reg("rsi"), Stk(16)),
      Ins("mov", Reg("rdx"), Stk(24)),
      Call("memcpy")>>

AsmFuncNames ==
    {"!!", "++", "and", "or", "not", "=", "<", ">", "length", "str-length", "char-at", "mod",
     "abs", "floor", "ceil", "sqrt", "ln", "log", "e^", "ten^", "sin", "cos", "tan", "asin",
     "acos", "atan", "pressing-key", "to-num", "random"}

RECURSIVE asm_generate_expr(_, _), asm_generate_func_call(_, _, _)
asm_generate_expr(g, e) ==
    CASE e.k = "Lit" -> push_lit(g, e.v)
      [] e.k = "FuncCall" -> asm_generate_func_call(g, e.name, e.a)
      [] OTHER -> Todo(g)

asm_generate_func_call(g, func_name, args) ==
    IF func_name = "++"
    THEN IF Len(args) = 1 THEN asm_generate_expr(g, args[1])
         ELSE IF Len(args) = 2
         THEN LET g1 == asm_generate_expr(emit(g, AsmConcatReserve), args[2])
                  g2 == asm_generate_expr(cowify(g1), args[1])
              IN  IF g1.st # "ok" THEN g1
                  ELSE IF g2.st # "ok" THEN g2
                  ELSE drop_pop(drop_pop(emit(cowify(g2), AsmConcatCode)))
         ELSE Todo(g)
    ELSE IF func_name \in AsmFuncNames THEN Todo(g)
    ELSE Err(g, [kind |-> "UnknownFunction", name |-> func_name, expected |-> 0, got |-> 0])

(***************************************************************************)
(* Statements, procedures and the whole program, as x86_64.rs compiles     *)
(* them.                                                                   *)
(***************************************************************************)
ProcCall(proc_name, args) == [k |-> "ProcCall", name |-> proc_name, args |-> args, body |-> <<>>]
Do(stmts) == [k |-> "Do", name |-> "", args |-> <<>>, body |-> stmts]
Forever(body) == [k |-> "Forever", name |-> "", args |-> <<>>, body |-> <<body>>]
\* IfElse, Repeat, Until, While, For
OtherStatement(kind) == [k |-> kind, name |-> "", args |-> <<>>, body |-> <<>>]
Procedure(params, body) == [params |-> params, body |-> body]

Label(uid) == <<Ins("label", Lbl(uid), NoOpd)>>
Ret == <<Ins("ret", NoOpd, NoOpd)>>
Jmp_Omitted(loop_label) == <<>>
Jmp(loop_label) == <<Ins("jmp", Lbl(loop_label), NoOpd)>>
PrintLitCode(message_id, len) ==
    <<Ins("mov", Reg("rax"), Imm(IntW(1))), Ins("mov", Reg("rdi"), Imm(IntW(1))),
      Ins("mov", Reg("rsi"), Imm(SPtr(message_id, 0))), Ins("mov", Reg("rdx"), Imm(IntW(len))),
      Ins("syscall", NoOpd, NoOpd)>>
PrintCode ==
    <<Ins("mov", Reg("rdx"), Reg("rsi")), Ins("mov", Reg("rsi"), Reg("rdi")),
      Ins("mov", Reg("rax"), Imm(IntW(1))), Ins("mov", Reg("rdi"), Imm(IntW(1))),
      Ins("syscall", NoOpd, NoOpd)>>

\* Value::to_cow_str
to_cow_str(lit) ==
    CASE lit.vt = "String" -> lit.s
      [] lit.vt = "Num" -> Format(to_bits(lit.n))
      [] lit.vt = "Bool" /\ lit.bo -> Bytes_true
      [] OTHER -> Bytes_false

generate_proc_call(g, proc_name, args) ==
    IF proc_name = "print" /\ Len(args) = 1
    THEN IF args[1].k = "Lit"
         THEN LET message == to_cow_str(args[1].v)
              IN  emit(allocate_static_str(g, message), PrintLitCode(g.uid, Len(message)))
         ELSE LET g1 == asm_generate_expr(g, args[1])
              IN  IF g1.st # "ok" THEN g1 ELSE drop_pop(emit(cowify(g1), PrintCode))
    ELSE Todo(g)

RECURSIVE generate_statement(_, _), generate_statements(_, _)
generate_statement(g, stmt) ==
    CASE stmt.k = "ProcCall" -> generate_proc_call(g, stmt.name, stmt.args)
      [] stmt.k = "Do" -> generate_statements(g, stmt.body)
      [] stmt.k = "Forever" ->
            LET loop_label == g.uid
                g1 == generate_statement(emit(new_uid(g), Label(loop_label)), stmt.body[1])
            IN  IF g1.st # "ok" THEN g1 ELSE emit(g1, Jmp(loop_label))
      [] OTHER -> Todo(g)

generate_statements(g, stmts) ==
    IF stmts = <<>> THEN g
    ELSE LET g1 == generate_statement(g, Head(stmts))
         IN  IF g1.st # "ok" THEN g1 ELSE generate_statements(g1, Tail(stmts))

push_entry_point(g, proc_id) == [g EXCEPT !.entry_points = Append(@, proc_id)]

generate_proc(g, name, proc) ==
    IF name = "when-flag-clicked"
    THEN IF proc.params # <<>> THEN Todo(g)
         ELSE LET proc_id == g.uid
                  g1 == generate_statement(
                            emit(push_entry_point(new_uid(g), proc_id), Label(proc_id)), proc.body)
              IN  IF g1.st # "ok" THEN g1 ELSE emit(g1, Ret)
    ELSE Todo(g)

\* The order in which write_asm_file visits the procedures: the stage first, then
\* the sprites, each name of a sprite with its procedures in turn.
RECURSIVE ProcsOfEntries(_), ProcsOfSprites(_)
ProcsOfEntries(entries) ==
    IF entries = <<>> THEN <<>>
    ELSE [i \in 1..Len(Head(entries).procs) |->
             [name |-> Head(entries).name, proc |-> Head(entries).procs[i]]]
         \o ProcsOfEntries(Tail(entries))
ProcsOfSprites(sprites) ==
    IF sprites = <<>> THEN <<>>
    ELSE ProcsOfEntries(Head(sprites).procedures) \o ProcsOfSprites(Tail(sprites))
Procs(prog) == ProcsOfSprites(<<prog.stage>> \o prog.sprites)

\* impl Display for AsmProgram
Prelude == <<Ins("prelude", NoOpd, NoOpd), Ins("label", Fn("main"), NoOpd)>>
EntryCalls_Reversed(entries) ==
    [i \in 1..Len(entries) |-> Ins("call", Lbl(entries[Len(entries) + 1 - i]), NoOpd)]
EntryCalls(entries) == [i \in 1..Len(entries) |-> Ins("call", Lbl(entries[i]), NoOpd)]
Exit ==
    <<Ins("mov", Reg("rax"), Imm(IntW(60))), Ins("mov", Reg("rdi"), Imm(IntW(0))),
      Ins("syscall", NoOpd, NoOpd)>>
Display(asm_program) ==
    Prelude \o EntryCalls(asm_program.entry_points) \o Exit \o asm_program.text

\* The ? of write_asm_file: whether the loop goes on after a procedure.
try_ignore(g) == IF g.st = "err" THEN "ok" ELSE g.st
try(g) == g.st

AsmLeaves ==
    {Lit(Str(<<97, 98>>)), Lit(Str(<<99, 100>>)), Lit(Num(5)), Lit(Bool(TRUE)), Lit(Bool(FALSE))}
AsmPairs == {FuncCall("++", <<a, b>>) : a, b \in AsmLeaves}
AsmOperands == AsmLeaves \cup {FuncCall("++", <<a>>) : a \in AsmLeaves} \cup AsmPairs
AsmInputs ==
    AsmOperands \cup {FuncCall("++", <<a, b>>) : a \in AsmOperands, b \in Fill \cup AsmPairs}
    \cup {FuncCall("++", <<>>), FuncCall("++", <<Lit(Num(5)), Lit(Num(5)), Lit(Num(5))>>),
          FuncCall("not", <<Lit(Num(5))>>), FuncCall("bogus", <<>>), Sym("x"),
          AddSub(<<Lit(Num(5))>>, <<>>), MulDiv(<<Lit(Num(5))>>, <<>>),
          FuncCall("++", <<Sym("x"), Lit(Num(5))>>), FuncCall("++", <<Lit(Num(5)), Sym("x")>>)}

InitAsm ==
    /\ ctx = NoContext /\ forms = <<>> /\ ast = NoAst /\ round_parity = 0
    /\ expr \in AsmInputs
    /\ aligned0 = TRUE
    /\ phase = "input"
    /\ text = <<>>
    /\ stack_aligned = aligned0
    /\ uid_generator = 0
    /\ result = [st |-> "none", typ |-> "", err |-> NoErr]
    /\ pc = 1
    /\ regs = [r \in RegNames |-> Junk]
    /\ stack = <<>>
    /\ heap = InitHeap
    /\ slots = InitSlots
    /\ frame = InitFrame
    /\ log = <<>>
    /\ visited = {}
    /\ marks = {}
    /\ program = NoProgram
    /\ proc_index = 0
    /\ entry_points = <<>>
    /\ file = NoFile

\* generate_expr of x86_64.rs on the input.
CompileAsm ==
    /\ phase = "input"
    /\ \E g \in {asm_generate_expr(NewProgram(aligned0), expr)} :
           /\ text' = g.text
           /\ uid_generator' = g.uid
           /\ result' = [st |-> g.st, typ |-> "", err |-> g.err]
           /\ phase' = IF g.st = "ok" THEN "run" ELSE g.st
           /\ marks' = g.marks
    /\ UNCHANGED <<expr, aligned0, stack_aligned, machineVars, fileVars, macroVars>>

NextAsm == CompileAsm \/ Step \/ StepCall

SpecAsm == InitAsm /\ [][NextAsm]_vars

(***************************************************************************)
(* write_asm_file, one procedure at a time.                                *)
(***************************************************************************)
MaxProcs == 2

PrintStmt(e) == ProcCall("print", <<e>>)
StartBodies ==
    {PrintStmt(Lit(Str(<<97, 98>>))),
     Do(<<PrintStmt(Lit(Num(5))), PrintStmt(Lit(Bool(TRUE)))>>),
     Forever(PrintStmt(FuncCall("++", <<Lit(Str(<<97, 98>>)), Lit(Str(<<99, 100>>))>>))),
     PrintStmt(FuncCall("bogus", <<>>)),
     Do(<<PrintStmt(Lit(Str(<<99, 100>>))), PrintStmt(FuncCall("bogus", <<>>))>>),
     OtherStatement("IfElse"),
     ProcCall("say", <<Lit(Num(5))>>)}
StageProcs ==
    {Procedure(<<>>, b) : b \in StartBodies} \cup {Procedure(<<"p">>, Do(<<>>))}
SpriteProcs ==
    {Procedure(<<>>, PrintStmt(Lit(Str(<<97, 98>>)))),
     Procedure(<<>>, PrintStmt(FuncCall("bogus", <<>>))),
     Procedure(<<>>, Forever(Do(<<>>)))}
SeqsUpTo(S, n) == UNION {[1..m -> S] : m \in 0..n}
Entry(name, procs) == [name |-> name, procs |-> procs]
Sprite(entries) == [procedures |-> entries]
Stages ==
    {Sprite(<<Entry("when-flag-clicked", ps)>> \o more) :
        ps \in SeqsUpTo(StageProcs, MaxProcs),
        more \in {<<>>, <<Entry("helper", <<Procedure(<<>>, Do(<<>>))>>)>>}}
Sprites == {<<>>} \cup {<<Sprite(<<Entry("when-flag-clicked", ps)>>)>> : ps \in SeqsUpTo(SpriteProcs, MaxProcs)}
Programs == {[stage |-> st, sprites |-> sp] : st \in Stages, sp \in Sprites}

InitFile ==
    /\ ctx = NoContext /\ forms = <<>> /\ ast = NoAst /\ round_parity = 0
    /\ program \in Programs
    /\ expr = Lit(NoVal)
    /\ aligned0 = TRUE
    /\ phase = "input"
    /\ text = <<>>
    /\ stack_aligned = aligned0
    /\ uid_generator = 0
    /\ result = [st |-> "none", typ |-> "", err |-> NoErr]
    /\ pc = 1
    /\ regs = [r \in RegNames |-> Junk]
    /\ stack = <<>>
    /\ heap = InitHeap
    /\ slots = InitSlots
    /\ frame = InitFrame
    /\ log = <<>>
    /\ visited = {}
    /\ marks = {}
    /\ proc_index = 0
    /\ entry_points = <<>>
    /\ file = NoFile

\* The AsmProgram of write_asm_file between two procedures.
AsmProgramNow ==
    [NewProgram(aligned0) EXCEPT !.text = text, !.uid = uid_generator,
                                 !.entry_points = entry_points, !.marks = marks]
NextProc == Procs(program)[proc_index + 1]

\* One turn of the loop of write_asm_file: generate_proc on the next procedure.
GenerateProc ==
    /\ phase = "input"
    /\ proc_index < Len(Procs(program))
    /\ \E g \in {generate_proc(AsmProgramNow, NextProc.name, NextProc.proc)} :
           IF try(g) = "ok"
           THEN /\ text' = g.text
                /\ uid_generator' = g.uid
                /\ entry_points' = g.entry_points
                /\ marks' = g.marks
                /\ proc_index' = proc_index + 1
                /\ UNCHANGED <<phase, result>>
           ELSE /\ phase' = g.st
                /\ result' = [st |-> g.st, typ |-> "", err |-> g.err]
                /\ UNCHANGED <<text, uid_generator, entry_points, marks, proc_index>>
    /\ UNCHANGED <<expr, aligned0, stack_aligned, machineVars, program, file, macroVars>>

\* After the loop: the file is created and the program is written to it.
WriteFile ==
    /\ phase = "input"
    /\ proc_index = Len(Procs(program))
    /\ file' = [written |-> TRUE, content |-> Display(AsmProgramNow)]
    /\ phase' = "written"
    /\ result' = [st |-> "ok", typ |-> "", err |-> NoErr]
    /\ UNCHANGED <<expr, aligned0, text, stack_aligned, uid_generator, machineVars,
                   marks, program, proc_index, entry_points, macroVars>>

NextFile == GenerateProc \/ WriteFile

SpecFile == InitFile /\ [][NextFile]_vars

(***************************************************************************)
(* The written file, assembled and started at main.  Its instructions are  *)
(* those of the expression text plus call and ret of numbered labels, jmp  *)
(* and syscall.                                                            *)
(***************************************************************************)
RunBodies ==
    {PrintStmt(Lit(Str(<<97, 98>>))),
     Do(<<PrintStmt(Lit(Num(5))), PrintStmt(Lit(Bool(TRUE)))>>),
     Forever(PrintStmt(Lit(Str(<<97, 98>>)))),
     Do(<<Forever(Do(<<>>)), PrintStmt(Lit(Str(<<99, 100>>)))>>),
     Forever(Do(<<PrintStmt(Lit(Num(5))), Forever(PrintStmt(Lit(Num(0))))>>))}
RunSpriteProcs ==
    {Procedure(<<>>, PrintStmt(Lit(Str(<<97, 98>>)))), Procedure(<<>>, Forever(Do(<<>>)))}
RunPrograms ==
    {[stage |-> Sprite(<<Entry("when-flag-clicked", ps)>>), sprites |-> sp] :
        ps \in SeqsUpTo({Procedure(<<>>, b) : b \in RunBodies}, MaxProcs),
        sp \in {<<>>} \cup {<<Sprite(<<Entry("when-flag-clicked", qs)>>)>> :
                                qs \in SeqsUpTo(RunSpriteProcs, MaxProcs)}}

InitRun ==
    /\ ctx = NoContext /\ forms = <<>> /\ ast = NoAst /\ round_parity = 0
    /\ program \in RunPrograms
    /\ expr = Lit(NoVal)
    /\ aligned0 = TRUE
    /\ phase = "input"
    /\ text = <<>>
    /\ stack_aligned = aligned0
    /\ uid_generator = 0
    /\ result = [st |-> "none", typ |-> "", err |-> NoErr]
    /\ pc = 1
    /\ regs = [r \in RegNames |-> Junk]
    /\ stack = <<>>
    /\ heap = InitHeap
    /\ slots = InitSlots
    /\ frame = InitFrame
    /\ log = <<>>
    /\ visited = {}
    /\ marks = {}
    /\ proc_index = 0
    /\ entry_points = <<>>
    /\ file = NoFile

\* The place of a numbered label in the file, and a return address.
FileLabelIndex(content, u) ==
    CHOOSE i \in 1..Len(content) : content[i].op = "label" /\ content[i].a = Lbl(u)
Code(at) == W("code", at, 0)

\* What one instruction of the file does.  A ret that finds no return address on
\* top of the stack continues anywhere.
ExecFileIns(M, i, content) ==
    LET N == [M EXCEPT !.visited = @ \cup {M.pc}]
    IN  CASE i.op = "call" /\ i.a.m = "lbl" ->
                {[N EXCEPT !.pc = FileLabelIndex(content, i.a.k), !.stack = <<Code(M.pc + 1)>> \o @]}
          [] i.op = "ret" ->
                IF M.stack # <<>> /\ M.stack[1].t = "code"
                THEN {[N EXCEPT !.pc = M.stack[1].a, !.stack = Tail(@)]}
                ELSE {[N EXCEPT !.pc = at, !.stack = Drop(@, 1)] : at \in 1..Len(content)}
          [] i.op = "jmp" -> {[N EXCEPT !.pc = FileLabelIndex(content, i.a.k)]}
          [] i.op = "syscall" ->
                {[N EXCEPT !.pc = @ + 1, !.regs["rax"] = M.regs["rdx"], !.regs["rcx"] = Junk]}
          [] i.op \in {"label", "staticstr", "prelude"} -> {[N EXCEPT !.pc = @ + 1]}
          [] OTHER -> ExecIns(M, i)

MainIndex == CHOOSE i \in 1..Len(file.content) : file.content[i] = Ins("label", Fn("main"), NoOpd)
Executing == phase = "exec" /\ pc \in 1..Len(file.content)
IsExit(i) == i.op = "syscall" /\ regs["rax"] = IntW(60)

\* The assembled file is started: control is at main.
StartFile ==
    /\ phase = "written"
    /\ phase' = "exec"
    /\ pc' = MainIndex
    /\ UNCHANGED <<expr, aligned0, text, stack_aligned, uid_generator, result, regs, stack,
                   heap, slots, frame, log, visited, marks, fileVars, macroVars>>

\* The machine executes the instruction of the file at pc; the exit system call
\* ends the process.
RunFile ==
    /\ Executing
    /\ IF IsExit(file.content[pc])
       THEN /\ phase' = "exited"
            /\ visited' = visited \cup {pc}
            /\ UNCHANGED <<pc, regs, stack, heap, slots, frame, log>>
       ELSE /\ \E N \in ExecFileIns(Machine, file.content[pc], file.content) : SetMachine(N)
            /\ UNCHANGED phase
    /\ UNCHANGED <<expr, aligned0, text, stack_aligned, uid_generator, result, marks, fileVars, macroVars>>

NextRun == GenerateProc \/ WriteFile \/ StartFile \/ RunFile

SpecRun == InitRun /\ [][NextRun]_vars /\ WF_vars(RunFile)

\* ---------------------------------------------------------------------------
\* expand of macros.rs, a round of transform_deep at a time.
\* ---------------------------------------------------------------------------
\* The forms programs are made of: macro definitions (of a symbol that stands for itself,
\* of symbols that stand for each other or for a symbol that is a macro in turn, of
\* function macros that call themselves or not) and forms that use them.
MacroForm(signature, body) == AstNode(AstSym("macro"), <<signature, body>>)
AstCall(name, args) == AstNode(AstSym(name), args)
Definitions ==
    {MacroForm(AstSym("x"), AstSym("x")),
     MacroForm(AstSym("x"), AstSym("y")),
     MacroForm(AstSym("y"), AstSym("x")),
     MacroForm(AstSym("y"), AstNum("5")),
     MacroForm(AstSym("y"), AstSym("z")),
     MacroForm(AstCall("twice", <<AstSym("a")>>),
               AstCall("+", <<AstUnquote(AstSym("a")), AstUnquote(AstSym("a"))>>)),
     MacroForm(AstCall("loop", <<AstSym("a")>>), AstCall("loop", <<AstUnquote(AstSym("a"))>>)),
     MacroForm(AstCall("fst", <<AstCall("pair", <<AstSym("a"), AstSym("b")>>)>>),
               AstUnquote(AstSym("a"))),
     MacroForm(AstCall("def", <<AstSym("a")>>),
               MacroForm(AstUnquote(AstSym("a")), AstNum("5"))),
     MacroForm(AstCall("bad", <<AstSym("a")>>), AstUnquote(AstSym("b")))}
Uses ==
    {AstSym("x"),
     AstCall("print", <<AstSym("y")>>),
     AstCall("twice", <<AstSym("y")>>),
     AstCall("twice", <<AstSym("x")>>),
     AstCall("twice", <<AstNum("1"), AstNum("2")>>),
     AstCall("loop", <<AstNum("1")>>),
     AstCall("fst", <<AstCall("pair", <<AstSym("y"), AstNum("2")>>)>>),
     AstCall("fst", <<AstNum("1")>>),
     AstCall("def", <<AstSym("y")>>),
     AstCall("bad", <<AstNum("1")>>),
     AstCall("str-concat!", <<AstString("a"), AstString("b")>>),
     AstCall("sym-concat!", <<>>),
     AstCall("print", <<AstCall("sym-concat!", <<AstSym("x")>>)>>),
     AstCall("include", <<AstString("lib")>>),
     AstCall("do", <<AstCall("include", <<AstString("rec")>>), AstCall("include-str", <<AstString("lib")>>)>>)}

\* Programs: at most MaxDefs macro definitions and then a form that uses them.
MaxDefs == 2
MacroPrograms == {defs \o <<use>> : defs \in SeqsUpTo(Definitions, MaxDefs), use \in Uses}


InitMacro ==
    /\ forms \in MacroPrograms
    /\ ctx = NoContext
    /\ ast = NoAst
    /\ round_parity = 0
    /\ phase = "expand"
    /\ expr = Lit(NoVal)
    /\ aligned0 = TRUE
    /\ text = <<>>
    /\ stack_aligned = aligned0
    /\ uid_generator = 0
    /\ result = [st |-> "none", typ |-> "", err |-> NoErr]
    /\ pc = 1
    /\ regs = [r \in RegNames |-> Junk]
    /\ stack = <<>>
    /\ heap = InitHeap
    /\ slots = InitSlots
    /\ frame = InitFrame
    /\ log = <<>>
    /\ visited = {}
    /\ marks = {}
    /\ program = NoProgram
    /\ proc_index = 0
    /\ entry_points = <<>>
    /\ file = NoFile

MacroResult(e) == [st |-> "err", typ |-> "", err |-> [NoErr EXCEPT !.kind = e]]

\* The end of transform_top_level for the form a, with rest the forms still to come: a
\* macro form defines its macro, an include form has the forms of its file handled
\* before the rest, and any other form is pushed on the expanded forms.
TopLevelMatch(c, a, rest, res) ==
    IF is_the_function_call(a, "macro")
    THEN LET d == define(c, AstTail(a))
         IN  IF d.st = "ok"
             THEN [ctx |-> d.ctx, forms |-> rest, phase |-> "expand", result |-> res]
             ELSE [ctx |-> c, forms |-> rest, phase |-> "err", result |-> MacroResult(d.err)]
    ELSE IF is_the_function_call(a, "include")
    THEN LET items == include(AstTail(a))
         IN  IF items.st = "ok"
             THEN [ctx |-> c, forms |-> items.forms \o rest, phase |-> "expand", result |-> res]
             ELSE [ctx |-> c, forms |-> rest, phase |-> "err", result |-> MacroResult(items.err)]
    ELSE [ctx |-> [c EXCEPT !.asts = Append(@, a)], forms |-> rest, phase |-> "expand",
          result |-> res]

\* expand takes the next form of the program: a macro form is not expanded, any other
\* form enters transform_deep.
TransformTopLevel ==
    /\ phase = "expand"
    /\ forms # <<>>
    /\ IF is_the_function_call(Head(forms), "macro")
       THEN \E m \in {TopLevelMatch(ctx, Head(forms), Tail(forms), result)} :
               /\ ctx' = m.ctx
               /\ forms' = m.forms
               /\ phase' = m.phase
               /\ result' = m.result
               /\ ast' = ast
       ELSE /\ ast' = Head(forms)
            /\ forms' = Tail(forms)
            /\ phase' = "deep"
            /\ UNCHANGED <<ctx, result>>
    /\ UNCHANGED <<expr, aligned0, text, stack_aligned, uid_generator, marks, machineVars,
                   program, proc_index, entry_points, file, round_parity>>

\* round_parity is the number of rounds the running try_repeat has made, modulo 2.
\* The state one round of transform_deep's try_repeat leaves: a Dirty round leaves its
\* tree for the next round, a Clean one ends transform_deep and the form goes on in
\* transform_top_level. A round in which the transform_deep of a macro argument never
\* returns does not end: expand is then inside that transform_deep ("inner") for good.
RoundOutcome(c, a, rest, res) ==
    LET stay == [ctx |-> c, forms |-> rest, phase |-> "deep", result |-> res, ast |-> a]
    IN       The({CASE r.st = "diverges" -> [stay EXCEPT !.phase = "inner"]
                    [] r.st = "err" -> [stay EXCEPT !.phase = "err", !.result = MacroResult(r.err)]
                    [] r.st = "ok" /\ r.dirty -> [stay EXCEPT !.ast = r.ast]
                    [] OTHER -> TopLevelMatch(c, r.ast, rest, res) @@ [ast |-> NoAst] :
                  r \in {bottom_up(c, a)}})

Round ==
    /\ phase = "deep"
    /\ \E m \in {RoundOutcome(ctx, ast, forms, result)} :
            /\ ctx' = m.ctx
            /\ forms' = m.forms
            /\ phase' = m.phase
            /\ result' = m.result
            /\ ast' = m.ast
            /\ round_parity' = IF m.phase = "deep" THEN 1 - round_parity ELSE 0
    /\ UNCHANGED <<expr, aligned0, text, stack_aligned, uid_generator, marks, machineVars,
                   program, proc_index, entry_points, file>>

\* One round of the transform_deep of a macro argument that never returns.
InnerRound ==
    /\ phase = "inner"
    /\ round_parity' = 1 - round_parity
    /\ UNCHANGED <<expr, aligned0, phase, text, stack_aligned, uid_generator, result, marks,
                   machineVars, fileVars, ctx, forms, ast>>

\* expand returns the expanded forms once the program is used up.
Return ==
    /\ phase = "expand"
    /\ forms = <<>>
    /\ phase' = "done"
    /\ result' = [st |-> "ok", typ |-> "", err |-> NoErr]
    /\ UNCHANGED <<expr, aligned0, text, stack_aligned, uid_generator, marks, machineVars,
                   fileVars, macroVars>>

NextMacro == TransformTopLevel \/ Round \/ InnerRound \/ Return

\* expand runs on: a round that can be taken is taken.
SpecMacro == InitMacro /\ [][NextMacro]_vars /\ WF_vars(NextMacro)

(***************************************************************************)
(* Properties.                                                             *)
(***************************************************************************)
InitStack == IF aligned0 THEN <<>> ELSE <<Outer>>
Compiled == phase = "run"
LogOf(f) == {j \in 1..Len(log) : log[j].f = f}
Releases == LogOf("drop_pop_cow")

\* C1: starting from an aligned stack with stack_aligned true, the number of words
\* the emitted code has pushed and not yet popped is even at every call instruction.
C1_CallsAligned ==
    (Running /\ aligned0 /\ text[pc].op = "call") => Len(stack) % 2 = 0

RECURSIVE HasStringOp(_)
HasStringOp(e) ==
    \/ e.k = "FuncCall" /\ e.name \in {"++", "str-length", "char-at"} /\ Len(e.a) >= 1
    \/ \E j \in 1..Len(e.a) : HasStringOp(e.a[j])
    \/ \E j \in 1..Len(e.b) : HasStringOp(e.b[j])

IsConcat(e) == e.k = "FuncCall" /\ e.name = "++" /\ Len(e.a) >= 2
PlainConcat == IsConcat(expr) /\ \A j \in 1..Len(expr.a) : ~HasStringOp(expr.a[j])

\* One fold step as the log shows it, from the malloc at log index j: both inputs are
\* copied into the new buffer, the new operand first, and then each is released once.
FoldStepAt(j) ==
    /\ j + 4 <= Len(log)
    /\ log[j + 1].f = "memcpy" /\ log[j + 2].f = "memcpy"
    /\ log[j + 3].f = "drop_pop_cow" /\ log[j + 4].f = "drop_pop_cow"
    /\ log[j + 1].args[1] = log[j].ret
    /\ log[j + 2].args[1] = AddW(log[j].ret, log[j + 1].args[3])
    /\ log[j + 3].args = <<log[j + 1].args[2], log[j + 1].args[3]>>
    /\ log[j + 4].args = <<log[j + 2].args[2], log[j + 2].args[3]>>
    /\ log[j].args[1] = AddW(log[j + 1].args[3], log[j + 2].args[3])

\* C2: every fold step of a concatenation, nested ones included, copies its two
\* inputs and then releases each of them once.  A concatenation of n >= 2 operands
\* that hold no string operation of their own makes n-1 fold steps; each copies its two
\* inputs and then releases each of them once, so there are 2*(n-1) releases, of
\* pairwise different values; every intermediate buffer is the accumulated input of
\* the next step; the last buffer is the result, is not released, and the Typ is
\* OwnedString.
C2_ConcatReleases ==
    /\ Finished => \A j \in LogOf("malloc") : FoldStepAt(j)
    /\ (Finished /\ PlainConcat) =>
           LET n == Len(expr.a)
               steps == LogOf("malloc")
           IN  /\ result.typ = "OwnedString"
               /\ Cardinality(steps) = n - 1
               /\ \A j \in steps : FoldStepAt(j)
               /\ Cardinality(Releases) = 2 * (n - 1)
               /\ \A j, k \in Releases : j # k => log[j].args[1] # log[k].args[1]
               /\ \A j \in steps :
                     IF \E k \in steps : k > j
                     THEN /\ \E k \in steps : k > j /\ log[k + 2].args[2] = log[j].ret
                          /\ ~heap[log[j].ret.a].live
                     ELSE /\ regs["rax"] = log[j].ret
                          /\ heap[log[j].ret.a].live
                          /\ \A k \in Releases : log[k].args[1] # log[j].ret

C2_Witness ==
    /\ Finished /\ PlainConcat /\ Len(expr.a) = 3 /\ ~aligned0
    /\ expr.a[1] = Lit(Num(5))

IsStrLit(e) == e.k = "Lit" /\ e.v.vt = "String"
StaticReleases == {j \in Releases : log[j].args[1].t = "sptr"}

\* C3 as stated: no release is handed a static string.
C3_NoStaticRelease == StaticReleases = {}

\* C3 amended: a string literal consumed as an operand of a concatenation of n >= 2
\* literals, or of str-length, is handed to drop_pop_cow exactly once, and that frees
\* no allocation; a literal that is the result (alone, or the single operand of ++)
\* and the empty string of a concatenation without operands are handed to no release.
C3_StaticReleasedOnlyAsCow ==
    Finished =>
        /\ (IsConcat(expr) /\ \A j \in 1..Len(expr.a) : IsStrLit(expr.a[j])) =>
              /\ Cardinality(StaticReleases) = Len(expr.a)
              /\ \A j, k \in StaticReleases : j # k => log[j].args[1] # log[k].args[1]
              /\ \A j \in StaticReleases : StrOf(Machine, log[j].args[1], log[j].args[2]) \in
                    {expr.a[k].v.s : k \in 1..Len(expr.a)}
        /\ (expr.k = "FuncCall" /\ expr.name = "str-length" /\ Len(expr.a) = 1 /\ IsStrLit(expr.a[1])) =>
              Cardinality(StaticReleases) = 1
        /\ (IsStrLit(expr) \/ (expr.k = "FuncCall" /\ expr.name = "++" /\ Len(expr.a) <= 1
                               /\ \A j \in 1..Len(expr.a) : IsStrLit(expr.a[j]))) =>
              (Releases = {} /\ result.typ = "StaticStr" /\ regs["rax"].t = "sptr")
        /\ \A j \in StaticReleases :
              \A h \in 1..Len(heap) : ~heap[h].live => \E k \in Releases : log[k].args[1] = HPtr(h, 0)

C3_Witness ==
    /\ Finished /\ IsConcat(expr) /\ Len(expr.a) = 3
    /\ \A j \in 1..Len(expr.a) : IsStrLit(expr.a[j])
    /\ Cardinality(StaticReleases) = 3

\* C4: when the code of a compiled expression has run, on whichever path, the stack
\* is what it was when the code started.
C4_StackRestored == Finished => stack = InitStack

C4_Witness ==
    /\ Finished /\ expr.k = "FuncCall" /\ expr.name = "and" /\ Len(expr.a) = 3
    /\ visited # 1..Len(text)
    /\ \E j \in 1..Len(log) : log[j].depth > Len(InitStack)

\* C5: stack_aligned after generate_expr, and after each coercing wrapper, returned
\* Ok is what it was before.
C5_FlagRestored ==
    /\ (phase # "input" /\ result.st = "ok") => stack_aligned = aligned0
    /\ phase = "input" =>
          /\ LET g == generate_bool_expr(NewProgram(aligned0), expr)
             IN  g.st = "ok" => g.stack_aligned = aligned0
          /\ LET g == generate_double_expr(NewProgram(aligned0), expr)
             IN  g.st = "ok" => g.stack_aligned = aligned0
          /\ LET g == generate_cow_expr(NewProgram(aligned0), expr)
             IN  g.st = "ok" => g.stack_aligned = aligned0
          /\ LET g == generate_any_expr(NewProgram(aligned0), expr)
             IN  g.st = "ok" => g.stack_aligned = aligned0

C5_Witness ==
    /\ Compiled /\ ~aligned0 /\ ~stack_aligned
    /\ expr.k = "FuncCall" /\ expr.name = "++" /\ Len(expr.a) = 2
    /\ expr.a[1].k = "FuncCall" /\ expr.a[1].name = "mod"
    /\ result.st = "ok"
IsShortCircuit(e) == e.k = "FuncCall" /\ e.name \in {"and", "or"} /\ Len(e.a) >= 2
\* The jumps of the outermost and/or, whose label takes the first uid.
Jumps == {j \in 1..Len(text) : text[j].op \in {"jz", "jnz"} /\ text[j].a = Lbl(0)}
Deciding == IntW(IF expr.name = "and" THEN 0 ELSE 1)
Taken == {j \in Jumps : j \in visited /\ (j + 1) \notin visited}

C7State ==
    (Compiled /\ IsShortCircuit(expr)) =>
        /\ Cardinality(Jumps) = Len(expr.a) - 1
        /\ text[Len(text)] = LocalLabel(0)[1]
        /\ \A j \in Jumps :
              /\ text[j].op = (IF expr.name = "and" THEN "jz" ELSE "jnz")
              /\ text[j - 1] = Ins("test", Reg("rax"), Reg("rax"))
              /\ (\E v \in visited : v > j /\ v < Len(text)) => j \in visited
              /\ pc = j => regs["rax"] \in {IntW(0), IntW(1)}
        /\ Finished =>
              /\ regs["rax"] \in {IntW(0), IntW(1)}
              /\ \A j \in Taken :
                    /\ regs["rax"] = Deciding
                    /\ visited \cap ((j + 1)..(Len(text) - 1)) = {}
              /\ Taken = {} => Jumps \subseteq visited

C7Jump ==
    (Compiled /\ IsShortCircuit(expr)) =>
        /\ (pc \in Jumps /\ regs["rax"] = Deciding) =>
              (pc' = Len(text) /\ regs'["rax"] = regs["rax"])
        /\ (pc \in Jumps /\ regs["rax"] # Deciding) => pc' = pc + 1
        /\ pc = Len(text) => (pc' = Len(text) + 1 /\ regs'["rax"] = regs["rax"])

\* C7: and/or with two or more operands evaluates them left to right; as soon as an
\* operand's Bool value decides the result (false for and, true for or) control goes
\* to the end label with that value as the result and no instruction of a later
\* operand runs; otherwise the next operand is evaluated.
C7_ShortCircuit == []C7State /\ [][C7Jump]_vars

C7_Witness ==
    /\ Finished /\ IsShortCircuit(expr) /\ expr.name = "or" /\ Len(expr.a) = 3
    /\ \E j \in Taken : \A k \in Jumps : j <= k
    /\ expr.a[2].k = "Lit"

\* C8: the arithmetic folds on no or one operand: (+) is 0.0, (*) is 1.0, a single
\* positive term is that term, a single negative term is its negation; the Typ is
\* Double each time.
C8_FoldIdentities ==
    Finished =>
        /\ expr = AddSub(<<>>, <<>>) => (regs["xmm0"] = F(0, 1) /\ result.typ = "Double")
        /\ expr = MulDiv(<<>>, <<>>) => (regs["xmm0"] = F(1, 1) /\ result.typ = "Double")
        /\ expr = AddSub(<<Lit(Num(5))>>, <<>>) => (regs["xmm0"] = F(5, 1) /\ result.typ = "Double")
        /\ expr = AddSub(<<>>, <<Lit(Num(5))>>) => (regs["xmm0"] = F(-5, 1) /\ result.typ = "Double")

C8_Witness == Finished /\ expr = AddSub(<<>>, <<Lit(Num(5))>>) /\ regs["xmm0"] = F(-5, 1)

SameOutcome(g) ==
    /\ text = g.text
    /\ stack_aligned = g.stack_aligned
    /\ uid_generator = g.uid
    /\ result = [st |-> g.st, typ |-> IF g.st = "ok" THEN g.typ ELSE "", err |-> g.err]

\* C9: generating (> a b) leaves the program exactly as generating (< b a) does:
\* the same text, flag and uid, and the same Typ, error or stop.
C9_GreaterIsSwappedLess ==
    (phase # "input" /\ pc = 1 /\ expr.k = "FuncCall" /\ expr.name = ">" /\ Len(expr.a) = 2) =>
        SameOutcome(generate_expr(NewProgram(aligned0), FuncCall("<", <<expr.a[2], expr.a[1]>>)))

C9_Witness ==
    /\ Compiled /\ pc = 1 /\ expr = FuncCall(">", <<Lit(Num(0)), Lit(Num(5))>>)
    /\ \E j \in 1..Len(text) : text[j].op = "setb"

SymCode(sym) ==
    IF sym \in VarNames THEN SymVarCode(var_id(sym))
    ELSE SymParamCode(Len(ProcParams), position(ProcParams, sym, 1))
Bound(sym) == sym \in VarNames \/ position(ProcParams, sym, 1) >= 0
Stores == {j \in 1..Len(text) : text[j].op \in {"mov", "movsd", "add", "xor"} /\ text[j].a.m \in {"var", "rbp"}}

\* C10: a read of a bound symbol emits the two loads of its slot and the call of
\* clone_any, inside the alignment pad when the flag is false, and nothing else, and
\* has Typ Any; no emitted instruction of any expression stores to a variable slot or
\* a parameter slot, so slots, parameters and the buffer a variable owns are, after
\* any number of reads, what they were.
C10_ReadLeavesBinding ==
    /\ (phase # "input" /\ expr.k = "Sym" /\ Bound(expr.name)) =>
          /\ result = [st |-> "ok", typ |-> "Any", err |-> NoErr]
          /\ text = SymCode(expr.name) \o (IF aligned0 THEN <<>> ELSE <<SubRsp(8)>>)
                    \o <<Call("clone_any")>> \o (IF aligned0 THEN <<>> ELSE <<AddRsp(8)>>)
          /\ Releases = {}
    /\ Stores = {}
    /\ slots = InitSlots /\ frame = InitFrame
    /\ heap[1] = InitHeap[1]

C10_Witness ==
    /\ Finished /\ expr = FuncCall("++", <<Sym("x"), Sym("p"), Sym("x")>>)
    /\ Cardinality(LogOf("clone_any")) = 3
    /\ Cardinality(Releases) = 4
LitBytes(e) == e.v.s
ResultIs(p, n, bytes) ==
    /\ p.t = "hptr" /\ p.b = 0 /\ p.a > Len(InitHeap) /\ p.a \in 1..Len(heap)
    /\ heap[p.a].live
    /\ n = IntW(Len(bytes))
    /\ heap[p.a].bytes = bytes

RECURSIVE Flatten(_)
Flatten(ss) == IF ss = <<>> THEN <<>> ELSE Head(ss) \o Flatten(Tail(ss))

StrLitConcat == IsConcat(expr) /\ \A j \in 1..Len(expr.a) : IsStrLit(expr.a[j])

\* The statement of C6 for the n-ary fold of expr.rs: a concatenation of two or more string
\* literals leaves in rax and rdx a buffer allocated by the run, other than every buffer
\* it copied from, that holds the operands' bytes in source order.
C6_FoldInOrder ==
    (Finished /\ StrLitConcat) =>
        /\ ResultIs(regs["rax"], regs["rdx"], Flatten([j \in 1..Len(expr.a) |-> LitBytes(expr.a[j])]))
        /\ \A j \in LogOf("memcpy") : log[j].args[2] # regs["rax"]

\* C6: compiled concatenation returns a freshly allocated buffer, distinct from every
\* operand buffer, whose length is the sum of the operands' lengths and whose content is
\* the operands' bytes in source order; (++ "ab" "cd") yields the 4 bytes "abcd". Stated
\* for the two-operand concatenation of x86_64.rs, which leaves its result on the stack.
C6_AsmConcatInOrder ==
    (Finished /\ StrLitConcat /\ Len(expr.a) = 2) =>
        /\ Len(stack) = 2
        /\ ResultIs(stack[1], stack[2], LitBytes(expr.a[1]) \o LitBytes(expr.a[2]))
        /\ \A j \in LogOf("memcpy") : log[j].args[2] # stack[1]

\* C11: generation either succeeds or returns an error value; no input makes the
\* generator stop in any other way.
C11_ErrorOrSuccess == phase # "panic"

\* C12: a FunctionWrongArgCount error always has got # expected, so a call with the
\* required number of arguments is never rejected with it.
C12_WrongArgCount ==
    (result.st = "err" /\ result.err.kind = "FunctionWrongArgCount") =>
        result.err.got # result.err.expected

\* The outcome of generate_proc on the next procedure of the loop.
NextOutcome == generate_proc(AsmProgramNow, NextProc.name, NextProc.proc)
AllProcs == Len(Procs(program))

\* What holds of write_asm_file in every state, and of every step it takes.
C13State ==
    /\ phase = "err" =>
          /\ file = NoFile
          /\ proc_index < AllProcs
          /\ NextOutcome.st = "err"
          /\ result = [st |-> "err", typ |-> "", err |-> NextOutcome.err]
    /\ file.written => (phase = "written" /\ proc_index = AllProcs)
    /\ phase # "written" => file = NoFile
C13Step ==
    /\ (phase = "input" /\ proc_index < AllProcs /\ NextOutcome.st = "err") =>
          (phase' = "err" /\ proc_index' = proc_index /\ text' = text /\ file' = NoFile)
    /\ phase = "err" => UNCHANGED vars
    /\ file' # file => (phase = "input" /\ proc_index = AllProcs)
\* C13: when compiling a procedure returns an error, write_asm_file returns that
\* error, compiles no further procedure and leaves the file uncreated; the file is
\* written only after every procedure of the stage and the sprites has compiled.
C13_ErrorAborts == []C13State /\ [][C13Step]_vars
C13_Witness ==
    /\ phase = "err"
    /\ proc_index >= 1
    /\ proc_index + 1 < AllProcs
    /\ result.err.kind = "UnknownFunction"

\* The places of the rendered file that hold a call of a numbered label, and the
\* place where a numbered label is declared.
CallsAt(content) == {i \in 1..Len(content) : content[i].op = "call" /\ content[i].a.m = "lbl"}
LabelAt(content, uid) == {i \in 1..Len(content) : content[i].op = "label" /\ content[i].a = Lbl(uid)}
ExitAt(content, i) == SubSeq(content, i, i + 2) = Exit
\* The text of the entry procedure registered i-th: from its label up to the label
\* of the next one.
EntryText(i) ==
    LET from == CHOOSE j \in LabelAt(text, entry_points[i]) : TRUE
        to == IF i = Len(entry_points) THEN Len(text)
              ELSE (CHOOSE j \in LabelAt(text, entry_points[i + 1]) : TRUE) - 1
    IN  SubSeq(text, from, to)
CompiledAlone(i) ==
    generate_proc([NewProgram(aligned0) EXCEPT !.uid = entry_points[i]],
                  Procs(program)[i].name, Procs(program)[i].proc).text

\* C14: main calls every registered entry point exactly once, in the order in which
\* the entry procedures were compiled (declaration order, the stage before the
\* sprites), then ends the process with the exit system call; the calls come before
\* every procedure body.
C14_EntryDispatch ==
    file.written =>
        LET c == file.content
            n == Len(entry_points)
        IN  /\ n = AllProcs
            /\ c[2] = Ins("label", Fn("main"), NoOpd)
            /\ CallsAt(c) = 3..(n + 2)
            /\ \A i \in 1..n : c[i + 2] = Ins("call", Lbl(entry_points[i]), NoOpd)
            /\ \A i, j \in 1..n : entry_points[i] = entry_points[j] => i = j
            /\ ExitAt(c, n + 3)
            /\ \A i \in 1..n :
                  /\ Cardinality(LabelAt(c, entry_points[i])) = 1
                  /\ \A j \in LabelAt(c, entry_points[i]) : j > n + 5
                  /\ EntryText(i) = CompiledAlone(i)
            /\ SubSeq(c, n + 6, Len(c)) = text
C14_Witness ==
    /\ file.written
    /\ Len(entry_points) >= 2
    /\ Len(ProcsOfSprites(<<program.stage>>)) >= 1
    /\ Len(ProcsOfSprites(program.sprites)) >= 1
    /\ CompiledAlone(1) # <<>>

\* C15: a when-flag-clicked procedure with parameters makes generate_proc report a
\* compilation error, registers no entry point, and no output is produced.
C15_ParamsRejected ==
    (/\ proc_index < AllProcs
     /\ NextProc.name = "when-flag-clicked"
     /\ NextProc.proc.params # <<>>
     /\ phase # "input") =>
        /\ phase = "err"
        /\ Len(entry_points) = proc_index
        /\ file = NoFile

\* The static strings of the text: the places of the staticstr directives.
StaticStrs == {i \in 1..Len(text) : text[i].op = "staticstr"}

\* C16: the static string table maps content to one label: equal literals share a
\* label and their content is emitted once; different contents have different labels.
C16_StaticStrInterned ==
    \A i, j \in StaticStrs :
        /\ text[i].db = text[j].db => i = j
        /\ text[i].a = text[j].a => i = j

\* The words the emitted code has pushed and not yet popped.
Outstanding == Len(stack) - Len(InitStack)

\* C18: wherever the generator emitted code, the value stack_aligned had there equals
\* its value at the start of the expression exactly when the number of words pushed
\* and not yet popped on reaching that place is even.
C18_FlagAgreesWithStack ==
    Running =>
        \A m \in marks : m.at = pc => ((m.flag = aligned0) <=> (Outstanding % 2 = 0))

\* (p, n) is the pointer and length of the string literal e.
IsLitPair(p, n, e) ==
    p.t = "sptr" /\ n = IntW(Len(LitBytes(e))) /\ StrOf(Machine, p, n) = LitBytes(e)

\* C19: in the code of char-at on a string literal, the call of char_at (the last one,
\* when the index holds a char-at of its own) is handed the literal's
\* pointer and length, the drop_pop_cow that follows removes those same two words,
\* and the value returned is the one char_at produced; for both values of
\* stack_aligned on entry.
C19_CharAtOperands ==
    (/\ Finished
     /\ expr.k = "FuncCall" /\ expr.name = "char-at" /\ Len(expr.a) = 2
     /\ IsStrLit(expr.a[1])) =>
        /\ LogOf("char_at") # {}
        /\ LET j == CHOOSE j \in LogOf("char_at") : \A k \in LogOf("char_at") : k <= j
           IN  /\ IsLitPair(log[j].args[1], log[j].args[2], expr.a[1])
               /\ j + 1 = Len(log) /\ log[j + 1].f = "drop_pop_cow"
               /\ IsLitPair(log[j + 1].args[1], log[j + 1].args[2], expr.a[1])
               /\ regs["rax"] = log[j].ret

\* The reference value of an arithmetic expression: its operands taken in list
\* order, the first one starting the accumulator and each later one added to,
\* subtracted from, multiplied into or divided into it.
RECURSIVE FoldRef(_, _, _, _), RefVal(_), HasRef(_)
FoldRef(acc, terms, op, j) ==
    IF j > Len(terms) THEN acc
    ELSE FoldRef(CASE op = "+" -> AddF(acc, RefVal(terms[j]))
                   [] op = "-" -> SubF(acc, RefVal(terms[j]))
                   [] op = "*" -> MulF(acc, RefVal(terms[j]))
                   [] OTHER -> DivF(acc, RefVal(terms[j])),
                 terms, op, j + 1)
RefVal(e) ==
    CASE e.k = "Lit" /\ e.v.vt = "Num" -> F(e.v.n, 1)
      [] e.k = "Lit" /\ e.v.vt = "Bool" -> IF e.v.bo THEN F(1, 1) ELSE F(0, 1)
      [] e.k = "Lit" -> Parse(e.v.s)
      [] e = Sym("p") -> F(3, 1)
      [] e.k = "AddSub" /\ e.a # <<>> ->
            FoldRef(FoldRef(RefVal(e.a[1]), e.a, "+", 2), e.b, "-", 1)
      [] e.k = "AddSub" /\ e.b # <<>> -> FlipSign(FoldRef(RefVal(e.b[1]), e.b, "+", 2))
      [] e.k = "AddSub" -> F(0, 1)
      [] e.k = "MulDiv" /\ e.a # <<>> ->
            FoldRef(FoldRef(RefVal(e.a[1]), e.a, "*", 2), e.b, "/", 1)
      [] e.k = "MulDiv" /\ e.b # <<>> -> DivF(F(1, 1), FoldRef(RefVal(e.b[1]), e.b, "*", 2))
      [] OTHER -> F(1, 1)
\* The expressions the reference covers: literals, the parameter p (the double 3)
\* and folds of them.
HasRef(e) ==
    \/ e.k = "Lit" /\ e.v.vt \in {"Num", "Bool", "String"}
    \/ e = Sym("p")
    \/ /\ e.k \in {"AddSub", "MulDiv"}
       /\ \A j \in 1..Len(e.a) : HasRef(e.a[j])
       /\ \A j \in 1..Len(e.b) : HasRef(e.b[j])
IsFold(e) == e.k \in {"AddSub", "MulDiv"}

\* C20: a fold leaves in xmm0 the reference result with the operands taken in list
\* order: sum(positives) - sum(negatives), the negation of sum(negatives) without
\* positives, the numerators' product divided by each denominator in turn, and 1.0
\* over the denominators' product without numerators; evaluating a later operand,
\* a fold of its own included, does not disturb the accumulator.
C20_FoldsComputeReference ==
    (Finished /\ IsFold(expr) /\ HasRef(expr)) =>
        /\ regs["xmm0"] = RefVal(expr)
        /\ result.typ = "Double"
C20_Witness ==
    /\ Finished /\ expr.k = "AddSub" /\ Len(expr.a) = 1 /\ Len(expr.b) = 1
    /\ expr.b[1].k = "MulDiv" /\ Len(expr.b[1].b) = 2
    /\ regs["xmm0"] = RefVal(expr)
    /\ regs["xmm0"] # F(0, 1)
    /\ Cardinality(LogOf("static_str_to_double")) >= 1

Typs == {"Double", "Bool", "StaticStr", "OwnedString", "Any"}
\* The pairs of the coercion table that need no code.
NoOpPair(from, to) ==
    \/ from = to
    \/ to = "cow" /\ from \in {"StaticStr", "OwnedString"}
    \/ to = "Any" /\ from # "Double"
TypPrefix(typ) ==
    CASE typ = "Double" -> "double"
      [] typ = "Bool" -> "bool"
      [] typ = "StaticStr" -> "static_str"
      [] typ = "OwnedString" -> "owned_string"
      [] OTHER -> "any"
HelperOf(from, to) ==
    TypPrefix(from) \o "_to_" \o
        (CASE to = "Bool" -> "bool"
           [] to = "Double" -> "double"
           [] to = "cow" /\ from = "Bool" -> "static_str"
           [] OTHER -> "cow")
\* What a wrapper added to the text of its operand, and the calls in it.
Added(g0, gw) == SubSeq(gw.text, Len(g0.text) + 1, Len(gw.text))
CallsOf(code) == {code[i].a.r : i \in {j \in 1..Len(code) : code[j].op = "call"}}
CoercionOk(g0, gw, to) ==
    /\ gw.st = "ok"
    /\ SubSeq(gw.text, 1, Len(g0.text)) = g0.text
    /\ IF NoOpPair(g0.typ, to) THEN Added(g0, gw) = <<>>
       ELSE IF to = "Any" THEN Added(g0, gw) = PackDouble
       ELSE /\ CallsOf(Added(g0, gw)) = {HelperOf(g0.typ, to)}
            /\ Cardinality({j \in 1..Len(Added(g0, gw)) : Added(g0, gw)[j].op = "call"}) = 1
\* (to-num (and 5 e)): e is converted to Bool and that Bool to Double.
ViaBool(e) == FuncCall("to-num", <<FuncCall("and", <<Lit(Num(5)), e>>)>>)

\* C17 as stated: converting A to Bool and the Bool to Double yields what the
\* direct conversion of A to Double yields.
C17_CoercionsCompose ==
    \A e \in Fill : (Finished /\ expr = ViaBool(e)) => regs["xmm0"] = RefVal(e)

\* C17 amended: the table is total: whatever Typ an expression has, each of the
\* four wrappers returns Ok, emits nothing for a pair of the same or a compatible
\* kind, packs a Double into Any inline, and emits one call of the helper of the
\* pair otherwise.  Composition is not path-independent: a conversion into Bool keeps
\* the truthiness only, so a truthy Double or StaticStr taken to Bool and then to
\* Double is 1.0.
C17_CoercionsTotal ==
    /\ (Compiled /\ pc = 1) =>
          LET g0 == generate_expr(NewProgram(aligned0), expr)
          IN  /\ g0.typ \in Typs
              /\ CoercionOk(g0, generate_bool_expr(NewProgram(aligned0), expr), "Bool")
              /\ CoercionOk(g0, generate_double_expr(NewProgram(aligned0), expr), "Double")
              /\ CoercionOk(g0, generate_cow_expr(NewProgram(aligned0), expr), "cow")
              /\ CoercionOk(g0, generate_any_expr(NewProgram(aligned0), expr), "Any")
    /\ \A e \in Fill : (Finished /\ expr = ViaBool(e)) => regs["xmm0"] = F(1, 1)
C17_Witness ==
    /\ Finished /\ expr = ViaBool(Lit(Str(<<99, 100>>)))
    /\ regs["xmm0"] = F(1, 1)
    /\ LogOf("static_str_to_bool") # {} /\ LogOf("bool_to_double") # {}
    /\ RefVal(Lit(Str(<<99, 100>>))) = F(0, 1)

\* How two doubles compare: "un" when one of them is NaN.
RefRank(x) == CASE x.t = "ninf" -> 0 [] x.t = "pinf" -> 2 [] OTHER -> 1
RefOrder(x, y) ==
    CASE x.t = "nan" \/ y.t = "nan" -> "un"
      [] RefRank(x) < RefRank(y) -> "lt"
      [] RefRank(x) > RefRank(y) -> "gt"
      [] RefRank(x) # 1 -> "eq"
      [] Num_(x) * Den_(y) < Num_(y) * Den_(x) -> "lt"
      [] Num_(x) * Den_(y) > Num_(y) * Den_(x) -> "gt"
      [] OTHER -> "eq"
\* An expression of kind Double whose value the reference gives.
IsDoubleExpr(e) == (e.k = "Lit" /\ e.v.vt = "Num") \/ (IsFold(e) /\ HasRef(e))
IsComparison(e) ==
    /\ e.k = "FuncCall" /\ e.name \in {"<", "=", ">"} /\ Len(e.a) = 2
    /\ IsDoubleExpr(e.a[1]) /\ IsDoubleExpr(e.a[2])
RefCompare(e) ==
    LET o == RefOrder(RefVal(e.a[1]), RefVal(e.a[2]))
    IN  CASE e.name = "<" -> o = "lt"
          [] e.name = ">" -> o = "gt"
          [] OTHER -> o = "eq"

\* C21: a comparison of two Doubles leaves 1 in rax exactly when the left operand is
\* less than (<), greater than (>) or equal to (=) the right one, and 0 otherwise,
\* an unordered comparison (an operand is NaN) included.
C21_ComparisonResult ==
    (Finished /\ IsComparison(expr)) =>
        regs["rax"] = IntW(IF RefCompare(expr) THEN 1 ELSE 0)

\* The forever statements of a statement, and of the whole program.
RECURSIVE Forevers(_), ForeversOf(_, _)
Forevers(stmt) ==
    (IF stmt.k = "Forever" THEN 1 ELSE 0) + ForeversOf(stmt.body, 1)
ForeversOf(stmts, j) ==
    IF j > Len(stmts) THEN 0 ELSE Forevers(stmts[j]) + ForeversOf(stmts, j + 1)
ProgramForevers == ForeversOf([j \in 1..AllProcs |-> Procs(program)[j].proc.body], 1)

\* The loops of the written file: a jump at place `jump` back to its label at `head`.
JumpsAt == {j \in 1..Len(file.content) : file.content[j].op = "jmp"}
HeadOf(j) == FileLabelIndex(file.content, file.content[j].a.k)
InLoop(j) == Executing /\ j \in JumpsAt /\ pc \in HeadOf(j)..j
InSomeLoop == \E j \in JumpsAt : InLoop(j)
AtJump == Executing /\ pc \in JumpsAt
AtHead == Executing /\ \E j \in JumpsAt : pc = HeadOf(j)

\* Every forever statement is a label of its own, the body, and a jump back to it.
C22Static ==
    file.written =>
        /\ Cardinality(JumpsAt) = ProgramForevers
        /\ \A j \in JumpsAt :
              /\ file.content[j].a.m = "lbl"
              /\ Cardinality(LabelAt(file.content, file.content[j].a.k)) = 1
              /\ HeadOf(j) < j
              /\ \A k \in JumpsAt : HeadOf(k) = HeadOf(j) => k = j
              /\ \A k \in CallsAt(file.content) : file.content[k].a # file.content[j].a
\* Control that is inside a loop stays inside it, and the process does not end.
C22Stay ==
    \A j \in JumpsAt :
        InLoop(j) => (phase' = "exec" /\ pc' \in HeadOf(j)..j /\ file' = file)

\* C22: a forever statement emits a fresh label, the body and a jump back to the
\* label; once control is inside the loop it never reaches an instruction after
\* the jump nor the exit, and the body is run again and again: from anywhere in a
\* loop a jump is reached, and from a jump the head of its loop.
C22_ForeverLoops ==
    /\ []C22Static
    /\ [][C22Stay]_vars
    /\ (InSomeLoop ~> AtJump)
    /\ (AtJump ~> AtHead)
C22_Witness ==
    /\ AtJump
    /\ pc \in visited
    /\ file.content[pc + 1].op # "ret"
    /\ Len(entry_points) >= 2
    /\ \E k \in CallsAt(file.content) : k \notin visited

\* C23: in the two-operand concatenation of x86_64.rs the byte count handed to the
\* first memcpy is the left operand's length and the one handed to the second is
\* the right operand's length, whatever the called routines do to the registers
\* the calling convention lets them overwrite.
C23_AsmConcatCounts ==
    (Finished /\ StrLitConcat /\ Len(expr.a) = 2) =>
        /\ Cardinality(LogOf("memcpy")) = 2
        /\ \A j, k \in LogOf("memcpy") :
              j < k => /\ log[j].args[3] = IntW(Len(LitBytes(expr.a[1])))
                       /\ log[k].args[3] = IntW(Len(LitBytes(expr.a[2])))


\* C24: macro expansion terminates: whatever the program and the macros defined so far (a
\* macro whose body holds its own name and macros that expand into each other included),
\* expand returns, with the expanded forms or with an error.
C24_ExpansionTerminates == <>(phase \in {"done", "err"})

====
